---------------------------- MODULE Spec2Model ----------------------------
(***************************************************************************)
(* Model of next-nice-datatable v2: the safe nested-field accessor         *)
(* (exportUtils.ts), the useDataTable hook (pipeline state, remote fetch,  *)
(* selection) and the debounced text inputs of the DataTable component.    *)
(*                                                                         *)
(* cfg holds the props of the current render and one property of the      *)
(* JavaScript engine the build runs on (the argument order in which        *)
(* Array.prototype.sort calls its comparator).                             *)
(***************************************************************************)
EXTENDS Integers, Sequences, FiniteSets, TLC

VARIABLES
    \* ---- getNestedValue call (exportUtils.ts) ----
    gnvObj,        \* the `obj` argument
    gnvPath,       \* the `path` argument, a string (sequence of tokens)
    gnvPc,         \* "call" before the call, "done" after it
    gnvOut,        \* outcome of the call: [value, reads, threw]
    \* ---- one call of another function of exportUtils.ts ----
    exportCall,    \* the call: [fn, arg]
    exportOut,     \* <<>> before the call returns, <<result>> after it
    \* ---- one call of extractAllValues on a graph of objects ----
    walk,          \* [heap, stack, visited, values, visits]
    \* ---- useDataTable (props that never change, then React state) ----
    cfg,                        \* props of the render and engine properties
    internalPage,
    internalRowsPerPage,
    internalSort,               \* [column, direction], each null or a string
    internalFilters,            \* column id -> [value, operator]
    internalClientFilterTerm,
    internalServerSearch,       \* [term, fields]
    internalAdvancedSearch,     \* [criteria, matchAll]
    internalSelectedRows,       \* array of row objects
    serverLoading,
    serverData,
    serverTotalCount,
    \* ---- the injected onFetchData and the JavaScript runtime ----
    requests,                   \* every onFetchData call so far: [params, status]
    consoleErrors,              \* number of console.error calls
    uncaught,                   \* an exception escaped fetchServerData
    lastCallback,               \* the latest change callback called: [name, arg]
    visibleColumns,             \* useState: the ids of the columns shown
    \* ---- DataTable component: debounced text inputs ----
    mounted,                    \* the component is mounted
    localFilterValue,           \* text shown in the filter box
    localSearchValue,           \* text shown in the search box
    filterTimerRef,             \* filterTimerRef.current: a timer id, 0 for null
    searchTimerRef,             \* searchTimerRef.current: a timer id, 0 for null
    timers,                     \* the runtime's pending timeouts: [id, stream, value]
    nextTimerId,                \* the id the next setTimeout returns
    lastTyped,                  \* history: stream -> <<>> or <<last typed value>>
    timerCalls                  \* history: handler calls made by timers

pathVars == <<gnvObj, gnvPath, gnvPc, gnvOut>>

exportVars == <<exportCall, exportOut>>

pipelineVars == <<internalPage, internalRowsPerPage, internalSort, internalFilters,
                  internalClientFilterTerm, internalServerSearch, internalAdvancedSearch>>

serverVars == <<serverLoading, serverData, serverTotalCount>>

runtimeVars == <<requests, consoleErrors, uncaught, lastCallback>>

hookVars == <<cfg, internalPage, internalRowsPerPage, internalSort, internalFilters,
              internalClientFilterTerm, internalServerSearch, internalAdvancedSearch,
              internalSelectedRows, serverLoading, serverData, serverTotalCount,
              requests, consoleErrors, uncaught, lastCallback>>

debounceVars == <<mounted, localFilterValue, localSearchValue, filterTimerRef,
                  searchTimerRef, timers, nextTimerId, lastTyped, timerCalls>>

vars == <<gnvObj, gnvPath, gnvPc, gnvOut, exportCall, exportOut, walk, visibleColumns,
          cfg, internalPage, internalRowsPerPage, internalSort, internalFilters,
          internalClientFilterTerm, internalServerSearch, internalAdvancedSearch,
          internalSelectedRows, serverLoading, serverData, serverTotalCount,
          requests, consoleErrors, uncaught, lastCallback,
          mounted, localFilterValue, localSearchValue, filterTimerRef,
          searchTimerRef, timers, nextTimerId, lastTyped, timerCalls>>

-----------------------------------------------------------------------------
(***************************************************************************)
(* Bounds                                                                  *)
(***************************************************************************)
MaxPathLen == 4        \* longest path string, in tokens
NumRows == 4           \* rows of the data prop (local mode)
RemoteTotal == 4       \* rows held by the remote source
MaxPage == 2           \* largest page index handed to handlePageChange
MaxFetches == 2        \* onFetchData calls per run (remote mode), the mount fetch included
MaxKeystrokes == 3     \* keystrokes per run (debounced inputs)
MaxRows == 3           \* longest data prop drawn for the pipeline checks
MaxControlled == 1     \* value props supplied together (controlled runs)
MaxTextLen == 3        \* characters of a text given to escapeHtml
MaxExportRows == 1     \* rows of the data given to an exporter
MaxWalkObjects == 2    \* composite values (objects, arrays) of a traversed row
MaxWalkItems == 1      \* entries of one composite value of a traversed row
MaxWalkDepth == 4      \* nested calls the runtime's call stack holds

-----------------------------------------------------------------------------
(***************************************************************************)
(* JavaScript values.  Every value is a record of one shape:               *)
(*   kind  : "undefined" | "null" | "number" | "string" | "boolean" |      *)
(*           "function" | "object"                                         *)
(*   num   : the number (or 0/1 for a boolean)                             *)
(*   str   : the string, a sequence of characters                          *)
(*   own   : own properties of an object, property name -> value           *)
(*   proto : <<>> (no prototype) or <<p>> (prototype p)                    *)
(*   oid   : object identity (two objects with equal fields but distinct   *)
(*           oid are distinct objects)                                     *)
(* A string is a sequence of tokens; a token is one character, except that *)
(* the three words "__proto__", "constructor" and "prototype" are single   *)
(* tokens.  The text of a string is the concatenation of its tokens; no    *)
(* two token sequences over the alphabet used here have the same text.     *)
(***************************************************************************)
NoProps == [k \in {} |-> 0]

Undefined == [kind |-> "undefined", num |-> 0, str |-> <<>>, own |-> NoProps, proto |-> <<>>, oid |-> 0]
Null      == [kind |-> "null",      num |-> 0, str |-> <<>>, own |-> NoProps, proto |-> <<>>, oid |-> 0]
Num(n)    == [kind |-> "number",    num |-> n, str |-> <<>>, own |-> NoProps, proto |-> <<>>, oid |-> 0]
Str(s)    == [kind |-> "string",    num |-> 0, str |-> s,    own |-> NoProps, proto |-> <<>>, oid |-> 0]
Bool(b)   == [kind |-> "boolean",   num |-> IF b THEN 1 ELSE 0, str |-> <<>>, own |-> NoProps, proto |-> <<>>, oid |-> 0]
AFunction == [kind |-> "function",  num |-> 0, str |-> <<>>, own |-> NoProps, proto |-> <<>>, oid |-> 0]

\* Object.prototype: carries `constructor` (the Object function) and the
\* `__proto__` accessor (see JsGet).
ObjectPrototype ==
    [kind |-> "object", num |-> 0, str |-> <<>>,
     own |-> (<<"constructor">> :> AFunction), proto |-> <<>>, oid |-> 0]

\* An ordinary object ({...} literal, JSON.parse result) with own properties o.
Obj(o) == [kind |-> "object", num |-> 0, str |-> <<>>, own |-> o,
           proto |-> <<ObjectPrototype>>, oid |-> 0]

\* Object.create(p) with own properties o.
ObjWithProto(o, p) == [kind |-> "object", num |-> 0, str |-> <<>>, own |-> o,
                       proto |-> <<p>>, oid |-> 0]

\* typeof v
TypeOf(v) == IF v.kind = "null" THEN "object" ELSE v.kind

RECURSIVE InheritsObjectPrototype(_)
InheritsObjectPrototype(v) ==
    \/ v = ObjectPrototype
    \/ v.proto # <<>> /\ InheritsObjectPrototype(v.proto[1])

RECURSIVE LookupChain(_, _)
LookupChain(v, key) ==
    IF key \in DOMAIN v.own THEN v.own[key]
    ELSE IF v.proto = <<>> THEN Undefined
    ELSE LookupChain(v.proto[1], key)

\* The JavaScript property read v[key]: [threw, value].
\* null[key] and undefined[key] throw a TypeError; an object is searched along
\* its prototype chain; Object.prototype's __proto__ getter yields the
\* receiver's prototype; a function or primitive is boxed.
JsGet(v, key) ==
    IF v.kind \in {"null", "undefined"} THEN [threw |-> TRUE, value |-> Undefined]
    ELSE IF v.kind = "object" THEN
        [threw |-> FALSE,
         value |-> IF key = <<"__proto__">> /\ key \notin DOMAIN v.own
                      /\ InheritsObjectPrototype(v)
                   THEN (IF v.proto = <<>> THEN Null ELSE v.proto[1])
                   ELSE LookupChain(v, key)]
    ELSE [threw |-> FALSE,
          value |-> IF key = <<"constructor">> THEN AFunction
                    ELSE IF key = <<"prototype">> /\ v.kind = "function"
                         THEN Obj(<<"constructor">> :> AFunction)
                    ELSE Undefined]

-----------------------------------------------------------------------------
(***************************************************************************)
(* exportUtils.ts: getNestedValue                                          *)
(***************************************************************************)

\* const BANNED_KEYS = new Set(['__proto__', 'constructor', 'prototype'])
BANNED_KEYS == {<<"__proto__">>, <<"constructor">>, <<"prototype">>}

\* path.split('.'): the maximal runs of non-dot tokens, in order; a string
\* with n dots always gives n + 1 parts (empty parts included).
RECURSIVE SplitAcc(_, _, _)
SplitAcc(s, cur, acc) ==
    IF s = <<>> THEN Append(acc, cur)
    ELSE IF Head(s) = "." THEN SplitAcc(Tail(s), <<>>, Append(acc, cur))
    ELSE SplitAcc(Tail(s), Append(cur, Head(s)), acc)

SplitDots(s) == SplitAcc(s, <<>>, <<>>)

\* BANNED_KEYS.has(part)
IsBannedKey_OnlyProto(part) == part = <<"__proto__">>

IsBannedKey(part) == part \in BANNED_KEYS

\* The guard on `current` before it is indexed.

NotTraversable(current) ==
    current.kind = "null" \/ current.kind = "undefined" \/ TypeOf(current) # "object"

\* The for-loop of getNestedValue from part i on.  `reads` is the sequence of
\* parts that have been used to index a value so far.
RECURSIVE GnvLoop(_, _, _, _)
GnvLoop(parts, i, current, reads) ==
    IF i > Len(parts) THEN [value |-> current, reads |-> reads, threw |-> FALSE]
    ELSE IF IsBannedKey(parts[i]) THEN [value |-> Undefined, reads |-> reads, threw |-> FALSE]
    ELSE IF NotTraversable(current) THEN [value |-> Undefined, reads |-> reads, threw |-> FALSE]
    ELSE LET r == JsGet(current, parts[i]) IN
         IF r.threw THEN [value |-> Undefined, reads |-> Append(reads, i), threw |-> TRUE]
         ELSE GnvLoop(parts, i + 1, r.value, Append(reads, i))

GnvRun(obj, path) == GnvLoop(SplitDots(path), 1, obj, <<>>)

getNestedValue(obj, path) == GnvRun(obj, path).value

-----------------------------------------------------------------------------
(***************************************************************************)
(* Inputs of the getNestedValue specification                              *)
(***************************************************************************)
PathTokens == {".", "a", "__proto__", "constructor", "prototype"}

RECURSIVE StringsUpTo(_, _)
StringsUpTo(alphabet, n) ==
    IF n = 0 THEN {<<>>}
    ELSE LET shorter == StringsUpTo(alphabet, n - 1) IN
         shorter \cup {Append(s, c) : s \in {t \in shorter : Len(t) = n - 1}, c \in alphabet}

Leaf == Obj((<<"a">> :> Num(1)))

\* A prototype that deliberately carries the three banned names.
PollutedProto ==
    Obj((<<"a">> :> Leaf) @@ (<<"constructor">> :> Leaf) @@ (<<"prototype">> :> Leaf))

RowSamples ==
    { Undefined, Null, Num(1), Str(<<"a">>), AFunction,
      \* plain nested row
      Obj((<<"a">> :> Obj((<<"a">> :> Leaf) @@ (<<"a", "a">> :> Num(2)))) @@ (<<>> :> Leaf)),
      \* own properties named like the banned keys (e.g. from JSON.parse)
      Obj((<<"__proto__">> :> Leaf) @@ (<<"constructor">> :> Leaf) @@ (<<"prototype">> :> Leaf)
          @@ (<<"a">> :> Obj((<<"__proto__">> :> Leaf) @@ (<<"constructor">> :> Leaf)
                            @@ (<<"prototype">> :> Leaf)))),
      \* the banned names present on the prototype chain
      ObjWithProto((<<"a">> :> ObjWithProto(NoProps, PollutedProto)), PollutedProto),
      \* a row holding null / a primitive one level down
      Obj((<<"a">> :> Null) @@ (<<"a", "a">> :> Str(<<"a">>))) }

NoOutcome == [value |-> Undefined, reads |-> <<>>, threw |-> FALSE]

-----------------------------------------------------------------------------
(***************************************************************************)
(* JavaScript strings and coercions used by useDataTable                   *)
(***************************************************************************)
UpperLetters == <<"A", "B", "C", "D", "E", "F", "G", "H", "I", "J", "K", "L", "M",
                  "N", "O", "P", "Q", "R", "S", "T", "U", "V", "W", "X", "Y", "Z">>
LowerLetters == <<"a", "b", "c", "d", "e", "f", "g", "h", "i", "j", "k", "l", "m",
                  "n", "o", "p", "q", "r", "s", "t", "u", "v", "w", "x", "y", "z">>
Digits == <<"0", "1", "2", "3", "4", "5", "6", "7", "8", "9">>

IsUpper(c) == \E i \in 1..Len(UpperLetters) : UpperLetters[i] = c

LowerChar(c) ==
    IF IsUpper(c) THEN LowerLetters[CHOOSE i \in 1..Len(UpperLetters) : UpperLetters[i] = c]
    ELSE c

\* s.toLowerCase()
ToLowerCase(s) == [i \in 1..Len(s) |-> LowerChar(s[i])]

\* s.startsWith(t), s.endsWith(t), s.includes(t)
StartsWith(s, t) == Len(t) <= Len(s) /\ SubSeq(s, 1, Len(t)) = t
EndsWith(s, t) == Len(t) <= Len(s) /\ SubSeq(s, Len(s) - Len(t) + 1, Len(s)) = t
Includes(s, t) == \E i \in 0..(Len(s) - Len(t)) : SubSeq(s, i + 1, i + Len(t)) = t

\* String(n) for a non-negative integer n
RECURSIVE NatToString(_)
NatToString(n) ==
    IF n < 10 THEN <<Digits[n + 1]>>
    ELSE Append(NatToString(n \div 10), Digits[(n % 10) + 1])

\* String(v)
JsString(v) ==
    CASE v.kind = "undefined" -> <<"u", "n", "d", "e", "f", "i", "n", "e", "d">>
      [] v.kind = "null"      -> <<"n", "u", "l", "l">>
      [] v.kind = "number"    -> IF v.num < 0 THEN <<"-">> \o NatToString(-v.num)
                                 ELSE NatToString(v.num)
      [] v.kind = "string"    -> v.str
      [] v.kind = "boolean"   -> IF v.num = 1 THEN <<"t", "r", "u", "e">>
                                 ELSE <<"f", "a", "l", "s", "e">>
      [] v.kind = "function"  -> <<"f", "u", "n", "c", "t", "i", "o", "n">>
      [] OTHER                -> <<"[", "o", "b", "j", "e", "c", "t", " ",
                                   "O", "b", "j", "e", "c", "t", "]">>

IsDigit(c) == \E i \in 1..Len(Digits) : Digits[i] = c

DigitValue(c) == (CHOOSE i \in 1..Len(Digits) : Digits[i] = c) - 1

RECURSIVE ParseDigits(_, _)
ParseDigits(s, acc) ==
    IF s = <<>> THEN acc ELSE ParseDigits(Tail(s), 10 * acc + DigitValue(Head(s)))

NaN == [nan |-> TRUE, n |-> 0]

\* Number(v): [nan, n]
ToNumber(v) ==
    CASE v.kind = "number"  -> [nan |-> FALSE, n |-> v.num]
      [] v.kind = "boolean" -> [nan |-> FALSE, n |-> v.num]
      [] v.kind = "null"    -> [nan |-> FALSE, n |-> 0]
      [] v.kind = "string"  -> IF \A i \in 1..Len(v.str) : IsDigit(v.str[i])
                               THEN [nan |-> FALSE, n |-> ParseDigits(v.str, 0)]
                               ELSE NaN
      [] OTHER              -> NaN

\* JavaScript truthiness
Truthy(v) ==
    CASE v.kind \in {"undefined", "null"} -> FALSE
      [] v.kind = "number"  -> v.num # 0
      [] v.kind = "boolean" -> v.num = 1
      [] v.kind = "string"  -> v.str # <<>>
      [] OTHER              -> TRUE

\* v ?? d
Nullish(v) == v.kind \in {"undefined", "null"}

\* The characters of the texts given to the escaping functions.
MarkupChars == {"&", "<", ">", "\"", "'", "a"}

\* The HTML fragment serialisation of one character of a Text node, as the
\* innerHTML getter writes it: only &, < and > are replaced.
SerializeTextChar(c) ==
    CASE c = "&" -> <<"&", "a", "m", "p", ";">>
      [] c = "<" -> <<"&", "l", "t", ";">>
      [] c = ">" -> <<"&", "g", "t", ";">>
      [] OTHER   -> <<c>>

\* div.textContent = str; return div.innerHTML
RECURSIVE InnerHtmlOfText(_)
InnerHtmlOfText(str) ==
    IF str = <<>> THEN <<>>
    ELSE SerializeTextChar(Head(str)) \o InnerHtmlOfText(Tail(str))

escapeHtml(value) ==
    IF value = Null \/ value = Undefined THEN <<>>
    ELSE InnerHtmlOfText(JsString(value))

\* Position of a character in the collation order (case ignored).
CollationOrder == <<" ", "-", "[", "]">> \o Digits \o LowerLetters

CharRank(c) ==
    LET lc == LowerChar(c) IN CHOOSE i \in 1..Len(CollationOrder) : CollationOrder[i] = lc

\* Lexicographic comparison of two sequences of integers: -1, 0 or 1.
RECURSIVE LexCompare(_, _)
LexCompare(s, t) ==
    IF s = <<>> /\ t = <<>> THEN 0
    ELSE IF s = <<>> THEN -1
    ELSE IF t = <<>> THEN 1
    ELSE IF Head(s) < Head(t) THEN -1
    ELSE IF Head(s) > Head(t) THEN 1
    ELSE LexCompare(Tail(s), Tail(t))

CaseRank(c) == IF IsUpper(c) THEN 1 ELSE 0

\* a.localeCompare(b): letters first (case ignored); among strings equal up
\* to case, lower case sorts before upper case.
LocaleCompare(s, t) ==
    LET primary == LexCompare([i \in 1..Len(s) |-> CharRank(s[i])],
                              [i \in 1..Len(t) |-> CharRank(t[i])]) IN
    IF primary # 0 THEN primary
    ELSE LexCompare([i \in 1..Len(s) |-> CaseRank(s[i])],
                    [i \in 1..Len(t) |-> CaseRank(t[i])])

-----------------------------------------------------------------------------
(***************************************************************************)
(* useDataTable: data processing (client filter, column filters, sort,     *)
(* pagination)                                                             *)
(***************************************************************************)

\* The subsequence of s at the positions in keep, order kept (Array.filter).
RECURSIVE KeepFrom(_, _, _)
KeepFrom(s, keep, i) ==
    IF i > Len(s) THEN <<>>
    ELSE IF i \in keep THEN <<s[i]>> \o KeepFrom(s, keep, i + 1)
    ELSE KeepFrom(s, keep, i + 1)

FilterSeq(s, keep) == KeepFrom(s, keep, 1)

-----------------------------------------------------------------------------
(***************************************************************************)
(* exportUtils.ts: the exporters                                           *)
(***************************************************************************)
\* resolveHtmlContent(value, allowUnsafe): value a string or undefined.
resolveHtmlContent_AlwaysRaw(value, allowUnsafe) ==
    IF ~Truthy(value) THEN <<>> ELSE value.str

resolveHtmlContent(value, allowUnsafe) ==
    IF ~Truthy(value) THEN <<>>
    ELSE IF allowUnsafe THEN value.str ELSE escapeHtml(value)

\* formatValueForExport(value, row, column, rowIndex).  column.exportFormat is
\* <<>> when the column has no exportFormat, else <<t>> for a callback that
\* returns the text t.  (The Date and object branches are left out: no drawn
\* cell holds a Date or an object.)
formatValueForExport(value, column) ==
    IF column.exportFormat # <<>> THEN column.exportFormat[1]
    ELSE IF Nullish(value) THEN <<>>
    ELSE IF value.kind = "boolean" THEN (IF value.num = 1 THEN <<"Y", "e", "s">> ELSE <<"N", "o">>)
    ELSE JsString(value)

\* a.join(sep) for an array a of strings
RECURSIVE Join(_, _)
Join(a, sep) ==
    IF a = <<>> THEN <<>>
    ELSE IF Len(a) = 1 THEN a[1]
    ELSE a[1] \o sep \o Join(Tail(a), sep)

escapeCsvValue_NoDoubling(value) ==
    IF \E c \in {",", "\"", "\n", "\r"} : Includes(value, <<c>>)
    THEN <<"\"">> \o value \o <<"\"">>
    ELSE value

\* value.replace(/"/g, '""') is the inner concatenation.
escapeCsvValue(value) ==
    IF \E c \in {",", "\"", "\n", "\r"} : Includes(value, <<c>>)
    THEN <<"\"">>
         \o Join([i \in 1..Len(value) |->
                     IF value[i] = "\"" THEN <<"\"", "\"">> ELSE <<value[i]>>], <<>>)
         \o <<"\"">>
    ELSE value

\* columns.filter(col => col.exportable !== false && !col.hidden); in a column
\* record exportable stands for `exportable !== false`, hidden for a truthy
\* `hidden`.
exportableColumnsOf(cols) ==
    FilterSeq(cols, {i \in 1..Len(cols) : cols[i].exportable /\ ~cols[i].hidden})

\* The formatted cells of the export: one array per row.
ExportCells(data, cols) ==
    [r \in 1..Len(data) |->
        [c \in 1..Len(cols) |->
            formatValueForExport(getNestedValue(data[r], cols[c].id), cols[c])]]

\* exportToCsv: the csvContent handed to downloadFile.
exportToCsv(data, cols, config) ==
    LET exportableColumns == exportableColumnsOf(cols)
        headers == Join([c \in 1..Len(exportableColumns) |->
                            escapeCsvValue(exportableColumns[c].label)], <<",">>)
        cells == ExportCells(data, exportableColumns)
        rows == [r \in 1..Len(data) |->
                    Join([c \in 1..Len(exportableColumns) |-> escapeCsvValue(cells[r][c])],
                         <<",">>)]
    IN  [format |-> "csv",
         content |-> IF config.includeHeaders # Bool(FALSE)
                     THEN Join(<<headers>> \o rows, <<"\n">>)
                     ELSE Join(rows, <<"\n">>)]

\* s.replace(/<[^>]*>/g, '')
RECURSIVE StripTags(_)
StripTags(s) ==
    IF s = <<>> THEN <<>>
    ELSE IF Head(s) = "<" /\ \E i \in 2..Len(s) : s[i] = ">"
         THEN LET close == CHOOSE i \in 2..Len(s) :
                               s[i] = ">" /\ \A j \in 2..(i - 1) : s[j] # ">"
              IN  StripTags(SubSeq(s, close + 1, Len(s)))
    ELSE <<Head(s)>> \o StripTags(Tail(s))

\* a || b for strings
OrElse(a, b) == IF Truthy(a) THEN a ELSE b

\* new Date().toLocaleString()
LocaleNow == <<"now">>

\* exportToPdf: the texts handed to doc.text and autoTable, in call order
\* (absent ones are <<>>, present ones <<text>>); the document has one page.
exportToPdf(data, cols, config) ==
    LET exportableColumns == exportableColumnsOf(cols)
        allowUnsafe == config.allowUnsafeHtml = Bool(TRUE)
        plain(field) == IF allowUnsafe THEN StripTags(field.str) ELSE field.str
    IN  [format |-> "pdf",
         title |-> IF Truthy(config.title) THEN <<config.title.str>> ELSE <<>>,
         subtitle |-> IF Truthy(config.subtitle) THEN <<config.subtitle.str>> ELSE <<>>,
         customHeader |-> IF Truthy(config.customHeader)
                          THEN <<plain(config.customHeader)>> ELSE <<>>,
         meta |-> <<"Generated: ">> \o LocaleNow \o <<"  |  Records: ">>
                  \o NatToString(Len(data)),
         head |-> IF config.includeHeaders # Bool(FALSE)
                  THEN <<[c \in 1..Len(exportableColumns) |-> exportableColumns[c].label]>>
                  ELSE <<>>,
         body |-> ExportCells(data, exportableColumns),
         footer |-> IF Truthy(config.customFooter) THEN plain(config.customFooter)
                    ELSE OrElse(config.title, Str(<<"Document">>)).str
                         \o <<"  -  Page 1 of 1">>]

\* exportToWord: the texts placed in the holes of the HTML template.
exportToWord(data, cols, config) ==
    LET exportableColumns == exportableColumnsOf(cols)
        allowUnsafe == config.allowUnsafeHtml = Bool(TRUE)
        cells == ExportCells(data, exportableColumns)
    IN  [format |-> "word",
         titleTag |-> escapeHtml(OrElse(config.title, Str(<<"Export">>))),
         title |-> IF Truthy(config.title) THEN <<escapeHtml(config.title)>> ELSE <<>>,
         subtitle |-> IF Truthy(config.subtitle) THEN <<escapeHtml(config.subtitle)>> ELSE <<>>,
         customHeader |-> IF Truthy(config.customHeader)
                          THEN <<resolveHtmlContent(config.customHeader, allowUnsafe)>>
                          ELSE <<>>,
         meta |-> <<"Generated: ">> \o escapeHtml(Str(LocaleNow)) \o <<" | Total Records: ">>
                  \o NatToString(Len(data)),
         head |-> IF config.includeHeaders # Bool(FALSE)
                  THEN <<[c \in 1..Len(exportableColumns) |->
                             escapeHtml(Str(exportableColumns[c].label))]>>
                  ELSE <<>>,
         body |-> [r \in 1..Len(data) |->
                     [c \in 1..Len(exportableColumns) |-> escapeHtml(Str(cells[r][c]))]],
         footer |-> IF Truthy(config.customFooter)
                    THEN resolveHtmlContent(config.customFooter, allowUnsafe)
                    ELSE escapeHtml(OrElse(config.title, Str(<<"Document">>)))]

\* exportData(format, data, columns, config): the generated document.
exportData(format, data, cols, config) ==
    CASE format = "csv"  -> exportToCsv(data, cols, config)
      [] format = "pdf"  -> exportToPdf(data, cols, config)
      [] format = "word" -> exportToWord(data, cols, config)

-----------------------------------------------------------------------------
\* Column ids (dot paths) and the columns prop of the modelled table.
ColId   == <<"i", "d">>
ColName == <<"n", "a", "m", "e">>

\* A column: searchable stands for `col.searchable !== false`, exportable for
\* `col.exportable !== false`, hidden for a truthy `col.hidden`; exportFormat is
\* <<>> or <<t>> for a callback returning the text t.
ExportColumn(id, label, exportFormat) ==
    [id |-> id, label |-> label, exportable |-> TRUE, hidden |-> FALSE,
     searchable |-> TRUE, exportFormat |-> exportFormat]

columns == cfg.columns

\* extractAllValues(obj): the leaf strings of a value.  Only membership is
\* used by the caller (Array.some), so the leaves are collected as a set.
RECURSIVE extractAllValues(_)
extractAllValues(obj) ==
    CASE obj.kind \in {"null", "undefined"} -> {}
      [] obj.kind = "string" -> {obj.str}
      [] obj.kind \in {"number", "boolean"} -> {JsString(obj)}
      [] obj.kind = "object" -> UNION {extractAllValues(obj.own[k]) : k \in DOMAIN obj.own}
      [] OTHER -> {}

\* matchesSearch(row, searchLower)
matchesSearch(row, searchLower) ==
    \/ \E c \in 1..Len(columns) :
          /\ columns[c].searchable
          /\ LET value == getNestedValue(row, columns[c].id) IN
             /\ ~Nullish(value)
             /\ Includes(ToLowerCase(JsString(value)), searchLower)
    \/ \E v \in extractAllValues(row) : Includes(ToLowerCase(v), searchLower)

\* One entry of the column-filter stage: the switch on filter.operator.
EvalFilter(row, columnId, filter) ==
    LET value     == getNestedValue(row, columnId)
        strVal    == ToLowerCase(JsString(IF Nullish(value) THEN Str(<<>>) ELSE value))
        strFilter == ToLowerCase(JsString(IF Nullish(filter.value) THEN Str(<<>>) ELSE filter.value))
        isEmpty   == Nullish(value) \/ value = Str(<<>>)
    IN  CASE filter.operator = "equals"      -> JsString(value) = JsString(filter.value)
          [] filter.operator = "contains"    -> Includes(strVal, strFilter)
          [] filter.operator = "startsWith"  -> StartsWith(strVal, strFilter)
          [] filter.operator = "endsWith"    -> EndsWith(strVal, strFilter)
          [] filter.operator = "greaterThan" ->
                /\ ~ToNumber(value).nan /\ ~ToNumber(filter.value).nan
                /\ ToNumber(value).n > ToNumber(filter.value).n
          [] filter.operator = "lessThan"    ->
                /\ ~ToNumber(value).nan /\ ~ToNumber(filter.value).nan
                /\ ToNumber(value).n < ToNumber(filter.value).n
          [] filter.operator = "isEmpty"     -> isEmpty
          [] filter.operator = "isNotEmpty"  -> ~isEmpty
          [] OTHER                           -> TRUE

\* Object.entries(filters).every(...)
PassesColumnFilters(row, filters) ==
    \A columnId \in DOMAIN filters : EvalFilter(row, columnId, filters[columnId])

\* The comparator handed to result.sort: negative, zero or positive.
SortCompare(a, b, sort) ==
    LET aVal == getNestedValue(a, sort.column.str)
        bVal == getNestedValue(b, sort.column.str)
        cmp  == IF Nullish(aVal) THEN 1
                ELSE IF Nullish(bVal) THEN -1
                ELSE IF aVal.kind = "string" /\ bVal.kind = "string"
                     THEN LocaleCompare(aVal.str, bVal.str)
                ELSE IF aVal.kind = "number" /\ bVal.kind = "number"
                     THEN aVal.num - bVal.num
                ELSE LocaleCompare(JsString(aVal), JsString(bVal))
    IN  IF sort.direction = Str(<<"d", "e", "s", "c">>) THEN -cmp ELSE cmp

\* Array.prototype.sort is a stable merge/insertion sort, and its order is
\* implementation-defined when the comparator is not consistent.  Engines
\* differ in the argument order of the comparator call for a pair (e earlier
\* in the array, x later): V8 calls comparefn(x, e) and moves x before e when
\* the result is negative; SpiderMonkey and JavaScriptCore call
\* comparefn(e, x) and move x before e when the result is positive.
\* cfg.comparefnArgs is "later-earlier" or "earlier-later".
MovesBefore(x, e, sort) ==
    IF cfg.comparefnArgs = "later-earlier"
    THEN SortCompare(x, e, sort) < 0
    ELSE SortCompare(e, x, sort) > 0

\* Insert x, which comes after every element of s in the input, into the
\* sorted sequence s.
RECURSIVE InsertSorted(_, _, _)
InsertSorted(s, x, sort) ==
    IF s = <<>> THEN <<x>>
    ELSE IF MovesBefore(x, s[Len(s)], sort)
         THEN Append(InsertSorted(SubSeq(s, 1, Len(s) - 1), x, sort), s[Len(s)])
    ELSE Append(s, x)

\* Array.prototype.sort with the comparator.
RECURSIVE SortRows(_, _)
SortRows(rows, sort) ==
    IF rows = <<>> THEN <<>>
    ELSE InsertSorted(SortRows(SubSeq(rows, 1, Len(rows) - 1), sort), rows[Len(rows)], sort)

\* The client-side branch of processedData: filter, column filters, sort.
ProcessRows(rows, term, filters, sort) ==
    LET afterTerm ==
            IF term # <<>>
            THEN FilterSeq(rows, {i \in 1..Len(rows) : matchesSearch(rows[i], ToLowerCase(term))})
            ELSE rows
        afterFilters ==
            IF DOMAIN filters # {}
            THEN FilterSeq(afterTerm, {i \in 1..Len(afterTerm) :
                                          PassesColumnFilters(afterTerm[i], filters)})
            ELSE afterTerm
    IN  IF Truthy(sort.column) /\ Truthy(sort.direction)
        THEN SortRows(afterFilters, sort)
        ELSE afterFilters

\* processedData.slice(start, start + rowsPerPage) with start = page * rowsPerPage
SlicePage_FromNextRow(rows, pg, rpp) ==
    LET start == pg * rpp + 1
        end   == IF start + rpp < Len(rows) THEN start + rpp ELSE Len(rows)
    IN  IF start >= Len(rows) THEN <<>> ELSE SubSeq(rows, start + 1, end)

SlicePage(rows, pg, rpp) ==
    LET start == pg * rpp
        end   == IF start + rpp < Len(rows) THEN start + rpp ELSE Len(rows)
    IN  IF start >= Len(rows) THEN <<>> ELSE SubSeq(rows, start + 1, end)

\* Math.ceil(totalCount / rowsPerPage)
CeilDiv(n, d) == (n + d - 1) \div d

-----------------------------------------------------------------------------
(***************************************************************************)
(* useDataTable: props, resolved state and derived values                  *)
(***************************************************************************)

\* const DEFAULT_ROWS_PER_PAGE = 12
DEFAULT_ROWS_PER_PAGE == 12

\* paginationConfig of the modelled table:
\* { defaultRowsPerPage: 2, rowsPerPageOptions: [2, 3] }
DefaultRowsPerPageProp == 2
RowsPerPageOptionsProp == {2, 3}

\* rowKeyField = 'id'
rowKeyField == ColId

RowNames == << <<"a", "b">>, <<"b", "c">>, <<"A", "c">> >>

\* The row { id: k, name: ... }; oid tells apart two objects for the same record.
DataRow(k, oid) ==
    [Obj((ColId :> Num(k)) @@ (ColName :> Str(RowNames[((k - 1) % Len(RowNames)) + 1])))
        EXCEPT !.oid = oid]

\* The data prop of the selection and debounce runs.
FixedData == [k \in 1..NumRows |-> DataRow(k, 0)]

\* r1 with the fields of r2 added or replaced.
Merge(r1, r2) ==
    [k \in (DOMAIN r1) \cup (DOMAIN r2) |-> IF k \in DOMAIN r2 THEN r2[k] ELSE r1[k]]

\* The props of a caller that passes data only, and V8's comparator argument
\* order.  A value prop is <<>> when it is left out (or null / undefined) and
\* <<v>> when it is supplied with value v; a callback prop is TRUE when it is
\* supplied.
DefaultProps ==
    [data                 |-> FixedData,
     columns              |-> <<ExportColumn(ColId, <<"I", "D">>, <<>>),
                                ExportColumn(ColName, <<"N">>, <<>>)>>,
     title                |-> Undefined,
     exportConfig         |-> [visibleColumnsOnly |-> Undefined,
                               filteredDataOnly |-> Undefined, includeHeaders |-> Undefined,
                               title |-> Undefined, subtitle |-> Undefined,
                               customHeader |-> Undefined, customFooter |-> Undefined,
                               allowUnsafeHtml |-> Undefined],
     sortConfig           |-> [defaultColumn |-> Undefined, defaultDirection |-> Undefined],
     comparefnArgs        |-> "later-earlier",
     totalCount           |-> <<>>,
     page                 |-> <<>>,
     rowsPerPage          |-> <<>>,
     sort                 |-> <<>>,
     filters              |-> <<>>,
     clientFilterTerm     |-> <<>>,
     searchTerm           |-> <<>>,
     serverSearch         |-> <<>>,
     advancedSearch       |-> <<>>,
     selectedRows         |-> <<>>,
     onPageChange         |-> FALSE,
     onRowsPerPageChange  |-> FALSE,
     onSortChange         |-> FALSE,
     onFilterChange       |-> FALSE,
     onClientFilterChange |-> FALSE,
     onSearchChange       |-> FALSE,
     onServerSearchChange |-> FALSE,
     onAdvancedSearch     |-> FALSE,
     onSelectionChange    |-> FALSE]

\* data: propData = []
propData == cfg.data

\* prop ?? internal
Coalesce_PreferInternal(prop, internal) == internal

Coalesce(prop, internal) == IF prop # <<>> THEN prop[1] ELSE internal

\* Controlled / uncontrolled resolution.
page             == Coalesce(cfg.page, internalPage)
rowsPerPage      == Coalesce(cfg.rowsPerPage, internalRowsPerPage)
sort             == Coalesce(cfg.sort, internalSort)
filters          == Coalesce(cfg.filters, internalFilters)
clientFilterTerm ==
    Coalesce(cfg.clientFilterTerm, Coalesce(cfg.searchTerm, internalClientFilterTerm))
serverSearch     == Coalesce(cfg.serverSearch, internalServerSearch)
advancedSearch   == Coalesce(cfg.advancedSearch, internalAdvancedSearch)
selectedRows     == Coalesce(cfg.selectedRows, internalSelectedRows)

\* const isServerSide = !!onFetchData
isServerSide == cfg.isServerSide

processedData ==
    IF isServerSide THEN serverData
    ELSE ProcessRows(propData, clientFilterTerm, filters, sort)

totalCount ==
    IF isServerSide THEN Coalesce(cfg.totalCount, serverTotalCount) ELSE Len(processedData)

totalPages == CeilDiv(totalCount, rowsPerPage)

paginatedData_AlwaysSlice == SlicePage(processedData, page, rowsPerPage)

paginatedData ==
    IF isServerSide THEN processedData
    ELSE SlicePage(processedData, page, rowsPerPage)

\* loading: !!props.loading || serverLoading
loading == cfg.loading \/ serverLoading

\* The part of the hook's return value that carries data and pipeline state.
HookReturnOf(sData, sTotal, sLoading, pg, rpp, srt, flt, sel) ==
    [data         |-> sData,
     totalCount   |-> sTotal,
     loading      |-> (cfg.loading \/ sLoading),
     page         |-> pg,
     rowsPerPage  |-> rpp,
     sort         |-> srt,
     filters      |-> flt,
     selectedRows |-> sel]

HookReturn ==
    HookReturnOf(paginatedData, totalCount, serverLoading, page, rowsPerPage, sort, filters,
                 selectedRows)

-----------------------------------------------------------------------------
(***************************************************************************)
(* useDataTable: server-side fetching                                      *)
(***************************************************************************)

\* The params object built by fetchServerData; advancedSearch is <<>> for
\* undefined.
FetchParams(pg, rpp, srt, flt, srch, adv) ==
    [page |-> pg, rowsPerPage |-> rpp, sort |-> srt, filters |-> flt, search |-> srch,
     advancedSearch |-> IF Len(adv.criteria) > 0 THEN <<adv>> ELSE <<>>]

\* The remote source: it holds RemoteTotal rows, honours the request's search
\* term, filters, sort and page, and builds fresh row objects for every
\* response.
RemoteResponse(params, reqId) ==
    LET rows == [k \in 1..RemoteTotal |-> DataRow(k, reqId)]
        all  == ProcessRows(rows, params.search.term, params.filters, params.sort)
    IN  [data |-> SlicePage(all, params.page, params.rowsPerPage), totalCount |-> Len(all)]

Pending == {i \in 1..Len(requests) : requests[i].status = "pending"}

\* The effect `if (isServerSide) fetchServerData()` after a render in which a
\* dependency of fetchServerData changed: setServerLoading(true), then
\* onFetchData(params) is awaited.
RunFetchEffect(changed, params) ==
    IF isServerSide /\ changed
    THEN /\ Len(requests) < MaxFetches
         /\ requests' = Append(requests, [params |-> params, status |-> "pending"])
         /\ serverLoading' = TRUE
    ELSE UNCHANGED <<requests, serverLoading>>

\* refetch: fetchServerData called directly by the consumer.
refetch ==
    /\ isServerSide
    /\ RunFetchEffect(TRUE, FetchParams(page, rowsPerPage, sort, filters, serverSearch,
                                        advancedSearch))
    /\ UNCHANGED <<cfg, pipelineVars, internalSelectedRows, serverData, serverTotalCount,
                   consoleErrors, uncaught, lastCallback>>

\* The promise of request i fulfils: the rest of the try block, then finally.

FetchResolve(i) ==
    /\ i \in Pending
    /\ LET result == RemoteResponse(requests[i].params, i) IN
       /\ serverData' = result.data
       /\ serverTotalCount' = result.totalCount
    /\ serverLoading' = FALSE
    /\ requests' = [requests EXCEPT ![i].status = "resolved"]
    /\ UNCHANGED <<cfg, pipelineVars, internalSelectedRows, consoleErrors, uncaught,
                   lastCallback>>

\* The promise of request i rejects: the catch block (console.error), then
\* finally.
FetchReject_NoCatch(i) ==
    /\ i \in Pending
    /\ uncaught' = TRUE
    /\ serverLoading' = FALSE
    /\ requests' = [requests EXCEPT ![i].status = "rejected"]
    /\ UNCHANGED <<cfg, pipelineVars, internalSelectedRows, serverData, serverTotalCount,
                   consoleErrors, lastCallback>>

FetchReject(i) ==
    /\ i \in Pending
    /\ consoleErrors' = consoleErrors + 1
    /\ serverLoading' = FALSE
    /\ requests' = [requests EXCEPT ![i].status = "rejected"]
    /\ UNCHANGED <<cfg, pipelineVars, internalSelectedRows, serverData, serverTotalCount,
                   uncaught, lastCallback>>

-----------------------------------------------------------------------------
(***************************************************************************)
(* useDataTable: handlers                                                  *)
(***************************************************************************)
NullSort == [column |-> Null, direction |-> Null]

Asc  == Str(<<"a", "s", "c">>)
Desc == Str(<<"d", "e", "s", "c">>)

\* A change callback supplied by the caller is called instead of the
\* setInternal... calls; the hook's state stays as it is.
Notify(name, arg) ==
    /\ lastCallback' = [name |-> name, arg |-> arg]
    /\ UNCHANGED <<cfg, pipelineVars, internalSelectedRows, serverVars, requests,
                   consoleErrors, uncaught>>

\* In each handler the fetch effect runs when a resolved dependency of
\* fetchServerData changes: a set state slice counts only while no prop
\* overrides it.
handlePageChange(newPage) ==
    IF cfg.onPageChange THEN Notify("onPageChange", newPage)
    ELSE
    /\ internalPage' = newPage
    /\ RunFetchEffect(cfg.page = <<>> /\ newPage # page,
                      FetchParams(Coalesce(cfg.page, newPage), rowsPerPage, sort, filters,
                                  serverSearch, advancedSearch))
    /\ UNCHANGED <<cfg, internalRowsPerPage, internalSort, internalFilters,
                   internalClientFilterTerm, internalServerSearch, internalAdvancedSearch,
                   internalSelectedRows, serverData, serverTotalCount, consoleErrors,
                   uncaught, lastCallback>>

handleRowsPerPageChange(newRowsPerPage) ==
    IF cfg.onRowsPerPageChange THEN Notify("onRowsPerPageChange", newRowsPerPage)
    ELSE
    /\ internalRowsPerPage' = newRowsPerPage
    /\ internalPage' = 0
    /\ RunFetchEffect(\/ cfg.rowsPerPage = <<>> /\ newRowsPerPage # rowsPerPage
                      \/ cfg.page = <<>> /\ page # 0,
                      FetchParams(Coalesce(cfg.page, 0),
                                  Coalesce(cfg.rowsPerPage, newRowsPerPage), sort, filters,
                                  serverSearch, advancedSearch))
    /\ UNCHANGED <<cfg, internalSort, internalFilters, internalClientFilterTerm,
                   internalServerSearch, internalAdvancedSearch, internalSelectedRows,
                   serverData, serverTotalCount, consoleErrors, uncaught, lastCallback>>

handleSortChange(column) ==
    LET newDir  == IF sort.column = Str(column)
                   THEN (IF sort.direction = Asc THEN Desc
                         ELSE IF sort.direction = Desc THEN Null ELSE Asc)
                   ELSE Asc
        newSort == [column |-> IF newDir = Null THEN Null ELSE Str(column),
                    direction |-> newDir]
    IN  IF cfg.onSortChange THEN Notify("onSortChange", newSort)
        ELSE
        /\ internalSort' = newSort
        /\ RunFetchEffect(cfg.sort = <<>>,
                          FetchParams(page, rowsPerPage, Coalesce(cfg.sort, newSort), filters,
                                      serverSearch, advancedSearch))
        /\ UNCHANGED <<cfg, internalPage, internalRowsPerPage, internalFilters,
                       internalClientFilterTerm, internalServerSearch,
                       internalAdvancedSearch, internalSelectedRows, serverData,
                       serverTotalCount, consoleErrors, uncaught, lastCallback>>

\* { ...filters } with columnId deleted, or set to { value, operator }; the
\* new object is a changed dependency of fetchServerData in every case.
handleFilterChange(columnId, value, operator) ==
    LET newFilters ==
            IF value = Str(<<>>) \/ Nullish(value)
            THEN [c \in (DOMAIN filters) \ {columnId} |-> filters[c]]
            ELSE [c \in (DOMAIN filters) \cup {columnId} |->
                     IF c = columnId THEN [value |-> value, operator |-> operator]
                     ELSE filters[c]]
    IN  IF cfg.onFilterChange THEN Notify("onFilterChange", newFilters)
        ELSE
        /\ internalFilters' = newFilters
        /\ internalPage' = 0
        /\ RunFetchEffect(cfg.filters = <<>> \/ (cfg.page = <<>> /\ page # 0),
                          FetchParams(Coalesce(cfg.page, 0), rowsPerPage, sort,
                                      Coalesce(cfg.filters, newFilters), serverSearch,
                                      advancedSearch))
        /\ UNCHANGED <<cfg, internalRowsPerPage, internalSort, internalClientFilterTerm,
                       internalServerSearch, internalAdvancedSearch, internalSelectedRows,
                       serverData, serverTotalCount, consoleErrors, uncaught, lastCallback>>

handleClearFilters ==
    IF cfg.onFilterChange THEN Notify("onFilterChange", NoProps)
    ELSE
    /\ internalFilters' = NoProps
    /\ internalPage' = 0
    /\ RunFetchEffect(cfg.filters = <<>> \/ (cfg.page = <<>> /\ page # 0),
                      FetchParams(Coalesce(cfg.page, 0), rowsPerPage, sort,
                                  Coalesce(cfg.filters, NoProps), serverSearch,
                                  advancedSearch))
    /\ UNCHANGED <<cfg, internalRowsPerPage, internalSort, internalClientFilterTerm,
                   internalServerSearch, internalAdvancedSearch, internalSelectedRows,
                   serverData, serverTotalCount, consoleErrors, uncaught, lastCallback>>

\* clientFilterTerm is not a dependency of fetchServerData: only the page
\* reset can trigger a fetch.
handleClientFilterChange(value) ==
    IF cfg.onClientFilterChange THEN Notify("onClientFilterChange", value)
    ELSE IF cfg.onSearchChange THEN Notify("onSearchChange", value)
    ELSE
    /\ internalClientFilterTerm' = value
    /\ internalPage' = 0
    /\ RunFetchEffect(cfg.page = <<>> /\ page # 0,
                      FetchParams(Coalesce(cfg.page, 0), rowsPerPage, sort, filters,
                                  serverSearch, advancedSearch))
    /\ UNCHANGED <<cfg, internalRowsPerPage, internalSort, internalFilters,
                   internalServerSearch, internalAdvancedSearch, internalSelectedRows,
                   serverData, serverTotalCount, consoleErrors, uncaught, lastCallback>>

\* { ...serverSearch, term }: a new object, a changed dependency.
handleServerSearchChange(term) ==
    LET newSearch == [serverSearch EXCEPT !.term = term] IN
    IF cfg.onServerSearchChange THEN Notify("onServerSearchChange", newSearch)
    ELSE
    /\ internalServerSearch' = newSearch
    /\ internalPage' = 0
    /\ RunFetchEffect(cfg.serverSearch = <<>> \/ (cfg.page = <<>> /\ page # 0),
                      FetchParams(Coalesce(cfg.page, 0), rowsPerPage, sort, filters,
                                  Coalesce(cfg.serverSearch, newSearch), advancedSearch))
    /\ UNCHANGED <<cfg, internalRowsPerPage, internalSort, internalFilters,
                   internalClientFilterTerm, internalAdvancedSearch, internalSelectedRows,
                   serverData, serverTotalCount, consoleErrors, uncaught, lastCallback>>

\* handleAdvancedSearch(search); handleClearAdvancedSearch is the call with
\* { criteria: [], matchAll: true }.
\* s.trim()
RECURSIVE TrimStart(_)
TrimStart(s) ==
    IF s # <<>> /\ Head(s) \in {" ", "\t", "\n", "\r"} THEN TrimStart(Tail(s)) ELSE s

Reverse(s) == [i \in 1..Len(s) |-> s[Len(s) + 1 - i]]

Trim(s) == Reverse(TrimStart(Reverse(TrimStart(s))))

\* A SearchCriteria object on the name field.
SearchCriterion(value) == [field |-> ColName, value |-> value, operator |-> "CONTAINS"]

hasActiveAdvancedSearch ==
    /\ Len(advancedSearch.criteria) > 0
    /\ \E i \in 1..Len(advancedSearch.criteria) : Trim(advancedSearch.criteria[i].value) # <<>>

handleAdvancedSearch(search) ==
    IF cfg.onAdvancedSearch THEN Notify("onAdvancedSearch", search)
    ELSE
    /\ internalAdvancedSearch' = search
    /\ internalPage' = 0
    /\ RunFetchEffect(cfg.advancedSearch = <<>> \/ (cfg.page = <<>> /\ page # 0),
                      FetchParams(Coalesce(cfg.page, 0), rowsPerPage, sort, filters,
                                  serverSearch, Coalesce(cfg.advancedSearch, search)))
    /\ UNCHANGED <<cfg, internalRowsPerPage, internalSort, internalFilters,
                   internalClientFilterTerm, internalServerSearch, internalSelectedRows,
                   serverData, serverTotalCount, consoleErrors, uncaught, lastCallback>>

-----------------------------------------------------------------------------
(***************************************************************************)
(* useDataTable: selection                                                 *)
(***************************************************************************)

\* getRowKey(row) = row[rowKeyField]
getRowKey(row) == JsGet(row, rowKeyField).value

isRowSelected_ByIdentity(row) ==
    \E i \in 1..Len(selectedRows) : selectedRows[i] = row

\* selectedRows.some(r => r[rowKeyField] === key)
isRowSelected(row) ==
    LET key == getRowKey(row) IN
    \E i \in 1..Len(selectedRows) : JsGet(selectedRows[i], rowKeyField).value = key

handleSelectionChange(row) ==
    LET key == getRowKey(row)
        alreadySelected ==
            \E i \in 1..Len(selectedRows) : JsGet(selectedRows[i], rowKeyField).value = key
        newSelection ==
            IF cfg.mode = "single"
            THEN (IF alreadySelected THEN <<>> ELSE <<row>>)
            ELSE IF alreadySelected
                 THEN FilterSeq(selectedRows,
                                {i \in 1..Len(selectedRows) :
                                    JsGet(selectedRows[i], rowKeyField).value # key})
                 ELSE Append(selectedRows, row)
    IN  IF cfg.onSelectionChange THEN Notify("onSelectionChange", newSelection)
        ELSE /\ internalSelectedRows' = newSelection
             /\ UNCHANGED <<cfg, pipelineVars, serverVars, runtimeVars>>

\* cfg.doubleClickSelectsOnly stands for `doubleClickSelectsOnly !== false`.
handleDoubleClickSelection(row) ==
    IF cfg.doubleClickSelectsOnly
    THEN IF cfg.onSelectionChange THEN Notify("onSelectionChange", <<row>>)
         ELSE /\ internalSelectedRows' = <<row>>
              /\ UNCHANGED <<cfg, pipelineVars, serverVars, runtimeVars>>
    ELSE UNCHANGED hookVars

selectAllScope_AlwaysAll == processedData

selectAllScope == IF cfg.selectAllScope = "all" THEN processedData ELSE paginatedData

handleSelectAll(checked) ==
    LET newSelection == IF checked THEN selectAllScope ELSE <<>> IN
    IF cfg.onSelectionChange THEN Notify("onSelectionChange", newSelection)
    ELSE /\ internalSelectedRows' = newSelection
         /\ UNCHANGED <<cfg, pipelineVars, serverVars, runtimeVars>>

isAllSelected ==
    IF Len(selectAllScope) = 0 THEN FALSE
    ELSE \A i \in 1..Len(selectAllScope) : isRowSelected(selectAllScope[i])

isIndeterminate_NoUpperBound ==
    \E i \in 1..Len(selectAllScope) : isRowSelected(selectAllScope[i])

isIndeterminate ==
    IF Len(selectAllScope) = 0 THEN FALSE
    ELSE LET count == Cardinality({i \in 1..Len(selectAllScope) :
                                      isRowSelected(selectAllScope[i])})
         IN  count > 0 /\ count < Len(selectAllScope)

-----------------------------------------------------------------------------
(***************************************************************************)
(* DataTable component: debounced filter and search inputs                 *)
(***************************************************************************)

\* clearTimeout(id): removes the pending timeout with that id, if any.
ClearTimeout(pending, id) == {t \in pending : t.id # id}

\* `if (ref.current) clearTimeout(ref.current)`
CancelPrevious_Never(pending, ref) == pending

CancelPrevious(pending, ref) == IF ref # 0 THEN ClearTimeout(pending, ref) ELSE pending

\* onChange of the filter box.
handleFilterInputChange(value) ==
    /\ mounted
    /\ nextTimerId <= MaxKeystrokes
    /\ localFilterValue' = value
    /\ timers' = CancelPrevious(timers, filterTimerRef)
                   \cup {[id |-> nextTimerId, stream |-> "filter", value |-> value]}
    /\ filterTimerRef' = nextTimerId
    /\ nextTimerId' = nextTimerId + 1
    /\ lastTyped' = [lastTyped EXCEPT !.filter = <<value>>]
    /\ UNCHANGED <<localSearchValue, searchTimerRef, timerCalls, mounted, hookVars>>

\* The debounced handler of the search box.
handleSearchInputChange(value) ==
    /\ mounted
    /\ nextTimerId <= MaxKeystrokes
    /\ localSearchValue' = value
    /\ timers' = CancelPrevious(timers, searchTimerRef)
                   \cup {[id |-> nextTimerId, stream |-> "search", value |-> value]}
    /\ searchTimerRef' = nextTimerId
    /\ nextTimerId' = nextTimerId + 1
    /\ lastTyped' = [lastTyped EXCEPT !.search = <<value>>]
    /\ UNCHANGED <<localFilterValue, filterTimerRef, timerCalls, mounted, hookVars>>

\* A pending timeout expires and its callback runs.  A state update on an
\* unmounted component is dropped by React.
TimerFires(t) ==
    /\ t \in timers
    /\ timers' = timers \ {t}
    /\ timerCalls' = Append(timerCalls,
                            [stream |-> t.stream, value |-> t.value, mounted |-> mounted,
                             typed |-> lastTyped[t.stream]])
    /\ IF ~mounted THEN UNCHANGED hookVars
       ELSE IF t.stream = "filter" THEN handleClientFilterChange(t.value)
       ELSE handleServerSearchChange(t.value)
    /\ UNCHANGED <<mounted, localFilterValue, localSearchValue, filterTimerRef,
                   searchTimerRef, nextTimerId, lastTyped>>

\* onClick of the clear button, shown while the filter box is not empty.
ClearFilterClick ==
    /\ mounted
    /\ localFilterValue # <<>>
    /\ localFilterValue' = <<>>
    /\ handleClientFilterChange(<<>>)
    /\ UNCHANGED <<mounted, localSearchValue, filterTimerRef, searchTimerRef, timers,
                   nextTimerId, lastTyped, timerCalls>>

\* The cleanup of the mount effect.

UnmountCleanup(pending) ==
    CancelPrevious(CancelPrevious(pending, filterTimerRef), searchTimerRef)

Unmount ==
    /\ mounted
    /\ mounted' = FALSE
    /\ timers' = UnmountCleanup(timers)
    /\ UNCHANGED <<localFilterValue, localSearchValue, filterTimerRef, searchTimerRef,
                   nextTimerId, lastTyped, timerCalls, hookVars>>

-----------------------------------------------------------------------------
(***************************************************************************)
(* Specifications                                                          *)
(***************************************************************************)
Range(s) == {s[i] : i \in 1..Len(s)}

\* TablePaginationActions: a click on the first, previous, next or last page
\* button; a disabled button takes no click.
PaginationButtonClick_NeverDisabled(button) ==
    CASE button = "first"    -> handlePageChange(0)
      [] button = "previous" -> page > 0 /\ handlePageChange(page - 1)
      [] button = "next"     -> handlePageChange(page + 1)
      [] button = "last"     -> handlePageChange(IF totalPages - 1 > 0 THEN totalPages - 1 ELSE 0)

PaginationButtonClick(button) ==
    LET pages == CeilDiv(totalCount, rowsPerPage) IN
    CASE button = "first"    -> page # 0 /\ handlePageChange(0)
      [] button = "previous" -> page # 0 /\ handlePageChange(page - 1)
      [] button = "next"     -> ~(page >= pages - 1) /\ handlePageChange(page + 1)
      [] button = "last"     -> /\ ~(page >= pages - 1)
                                /\ handlePageChange(IF pages - 1 > 0 THEN pages - 1 ELSE 0)

\* TableRow onClick / onDoubleClick of the DataTable component;
\* cfg.selectionEnabled stands for a truthy selectionConfig.enabled.  The
\* caller's onRowClick, onView and onRowDoubleClick change nothing modelled.
RowClick(row) ==
    IF cfg.selectionEnabled THEN handleSelectionChange(row) ELSE UNCHANGED hookVars

RowDoubleClick(row) == handleDoubleClickSelection(row)

\* handleSubmit of the SearchDialog whose local state is (criteria, matchAll);
\* onSearch is handleAdvancedSearch, onClose changes nothing modelled here.
SearchDialogSubmit(criteria, matchAll) ==
    LET validCriteria == FilterSeq(criteria, {i \in 1..Len(criteria) :
                                                 Trim(criteria[i].value) # <<>>})
    IN  IF Len(validCriteria) = 0 THEN UNCHANGED hookVars
        ELSE handleAdvancedSearch([criteria |-> validCriteria, matchAll |-> matchAll])

\* visibleColumnsConfig: the columns prop restricted to the visible ids.
visibleColumnsConfig ==
    FilterSeq(columns, {i \in 1..Len(columns) : columns[i].id \in Range(visibleColumns)})

handleColumnVisibilityChange(columnId, visible) ==
    /\ visibleColumns' = IF visible THEN Append(visibleColumns, columnId)
                         ELSE FilterSeq(visibleColumns,
                                        {i \in 1..Len(visibleColumns) :
                                            visibleColumns[i] # columnId})
    /\ UNCHANGED <<hookVars, exportVars>>

\* A click on the entry of column c in the column menu.
ColumnMenuClick(c) ==
    handleColumnVisibilityChange(columns[c].id, columns[c].id \notin Range(visibleColumns))

\* handleExport(format) of the DataTable component, exportData included.
handleExport(format) ==
    LET config == Merge(cfg.exportConfig,
                        [title |-> OrElse(cfg.exportConfig.title, cfg.title)])
        dataToExport == IF cfg.exportConfig.filteredDataOnly # Bool(FALSE)
                        THEN processedData ELSE propData
        columnsToExport == IF cfg.exportConfig.visibleColumnsOnly # Bool(FALSE)
                           THEN visibleColumnsConfig ELSE columns
    IN  /\ exportCall' = [fn |-> "exportData",
                          arg |-> [format |-> format, data |-> dataToExport,
                                   columns |-> columnsToExport, config |-> config]]
        /\ exportOut' = <<exportData(format, dataToExport, columnsToExport, config)>>
        /\ UNCHANGED <<hookVars, visibleColumns>>

IdlePath ==
    /\ gnvObj = Undefined
    /\ gnvPath = <<>>
    /\ gnvPc = "idle"
    /\ gnvOut = NoOutcome

IdleWalk == walk = [heap |-> <<>>, stack |-> <<>>, visited |-> {}, values |-> <<>>,
                    visits |-> <<>>, threw |-> FALSE]

\* A reference to the composite value (object or array) number id of the heap.
Ref(id) == [kind |-> "ref", num |-> id, str |-> <<>>, own |-> NoProps, proto |-> <<>>,
            oid |-> id]

\* extractAllValues(obj, visited) on a graph of objects, one step of the
\* recursion at a time.  walk.heap[id] holds the entries (Object.values, or
\* the items of an array) of composite id; walk.stack holds the pending calls
\* <<"call", value>> and the running for-loops <<"loop", id, next index>>;
\* walk.visits[id] counts how often the entries of id were iterated.  A call
\* nested deeper than the call stack allows throws RangeError.
WalkStep_NoVisited ==
    /\ walk.stack # <<>>
    /\ LET top == walk.stack[Len(walk.stack)]
           rest == SubSeq(walk.stack, 1, Len(walk.stack) - 1)
       IN  IF top[1] = "call"
           THEN LET obj == top[2] IN
                CASE obj.kind \in {"null", "undefined"} ->
                        walk' = [walk EXCEPT !.stack = rest]
                  [] obj.kind = "string" ->
                        walk' = [walk EXCEPT !.stack = rest, !.values = Append(@, obj.str)]
                  [] obj.kind \in {"number", "boolean"} ->
                        walk' = [walk EXCEPT !.stack = rest,
                                             !.values = Append(@, JsString(obj))]
                  [] obj.kind = "ref" ->
                        walk' = [walk EXCEPT !.stack = Append(rest, <<"loop", obj.num, 1>>),
                                             !.visited = @ \cup {obj.num},
                                             !.visits[obj.num] = @ + 1]
                  [] OTHER -> walk' = [walk EXCEPT !.stack = rest]
           ELSE IF top[3] > Len(walk.heap[top[2]])
                THEN walk' = [walk EXCEPT !.stack = rest]
                ELSE IF Len(walk.stack) >= MaxWalkDepth
                     THEN walk' = [walk EXCEPT !.stack = <<>>, !.threw = TRUE]
                     ELSE walk' = [walk EXCEPT
                                     !.stack = Append(Append(rest, <<"loop", top[2], top[3] + 1>>),
                                                      <<"call", walk.heap[top[2]][top[3]]>>)]
    /\ UNCHANGED <<pathVars, hookVars, debounceVars, exportVars, visibleColumns>>

WalkStep ==
    /\ walk.stack # <<>>
    /\ LET top == walk.stack[Len(walk.stack)]
           rest == SubSeq(walk.stack, 1, Len(walk.stack) - 1)
       IN  IF top[1] = "call"
           THEN LET obj == top[2] IN
                CASE obj.kind \in {"null", "undefined"} ->
                        walk' = [walk EXCEPT !.stack = rest]
                  [] obj.kind = "string" ->
                        walk' = [walk EXCEPT !.stack = rest, !.values = Append(@, obj.str)]
                  [] obj.kind \in {"number", "boolean"} ->
                        walk' = [walk EXCEPT !.stack = rest,
                                             !.values = Append(@, JsString(obj))]
                  [] obj.kind = "ref" ->
                        IF obj.num \in walk.visited
                        THEN walk' = [walk EXCEPT !.stack = rest]
                        ELSE walk' = [walk EXCEPT
                                        !.stack = Append(rest, <<"loop", obj.num, 1>>),
                                        !.visited = @ \cup {obj.num},
                                        !.visits[obj.num] = @ + 1]
                  [] OTHER -> walk' = [walk EXCEPT !.stack = rest]
           ELSE IF top[3] > Len(walk.heap[top[2]])
                THEN walk' = [walk EXCEPT !.stack = rest]
                ELSE IF Len(walk.stack) >= MaxWalkDepth
                     THEN walk' = [walk EXCEPT !.stack = <<>>, !.threw = TRUE]
                     ELSE walk' = [walk EXCEPT
                                     !.stack = Append(Append(rest, <<"loop", top[2], top[3] + 1>>),
                                                      <<"call", walk.heap[top[2]][top[3]]>>)]
    /\ UNCHANGED <<pathVars, hookVars, debounceVars, exportVars, visibleColumns>>

IdleExport ==
    /\ exportCall = [fn |-> "none", arg |-> Undefined]
    /\ exportOut = <<>>

\* useState initial values of the hook.
InitHookState ==
    /\ internalPage = 0
    /\ internalRowsPerPage =
          (IF DefaultRowsPerPageProp # 0 THEN DefaultRowsPerPageProp ELSE DEFAULT_ROWS_PER_PAGE)
    /\ internalSort =
          [column    |-> IF Truthy(cfg.sortConfig.defaultColumn)
                         THEN cfg.sortConfig.defaultColumn ELSE Null,
           direction |-> IF Truthy(cfg.sortConfig.defaultDirection)
                         THEN cfg.sortConfig.defaultDirection ELSE Null]
    /\ internalFilters = NoProps
    /\ internalClientFilterTerm = <<>>
    /\ internalServerSearch = [term |-> <<>>, fields |-> <<>>]
    /\ internalAdvancedSearch = [criteria |-> <<>>, matchAll |-> TRUE]
    /\ internalSelectedRows = <<>>
    /\ serverData = <<>>
    /\ serverTotalCount = 0
    /\ consoleErrors = 0
    /\ uncaught = FALSE
    /\ lastCallback = [name |-> "none", arg |-> 0]
    /\ visibleColumns =
          LET shown == FilterSeq(columns, {i \in 1..Len(columns) : ~columns[i].hidden})
          IN  [i \in 1..Len(shown) |-> shown[i].id]

\* useState / useRef initial values of the component.
InitDebounce ==
    /\ mounted = TRUE
    /\ localFilterValue = internalClientFilterTerm
    /\ localSearchValue = internalServerSearch.term
    /\ filterTimerRef = 0
    /\ searchTimerRef = 0
    /\ timers = {}
    /\ nextTimerId = 1
    /\ lastTyped = [filter |-> <<>>, search |-> <<>>]
    /\ timerCalls = <<>>

LocalDefaultCfg ==
    Merge(DefaultProps,
          [isServerSide |-> FALSE, mode |-> "multiple", selectAllScope |-> "page",
           doubleClickSelectsOnly |-> TRUE, loading |-> FALSE])

IdleHook ==
    /\ cfg = LocalDefaultCfg
    /\ InitHookState
    /\ serverLoading = FALSE
    /\ requests = <<>>

InitPath ==
    /\ gnvObj \in RowSamples
    /\ gnvPath \in StringsUpTo(PathTokens, MaxPathLen)
    /\ gnvPc = "call"
    /\ gnvOut = NoOutcome
    /\ IdleHook
    /\ InitDebounce
    /\ IdleWalk
    /\ IdleExport

\* One call getNestedValue(gnvObj, gnvPath).
CallGetNestedValue ==
    /\ gnvPc = "call"
    /\ gnvOut' = GnvRun(gnvObj, gnvPath)
    /\ gnvPc' = "done"
    /\ UNCHANGED <<gnvObj, gnvPath, hookVars, debounceVars, exportVars, visibleColumns, walk>>

NextPath == CallGetNestedValue

SpecPath == InitPath /\ [][NextPath]_vars

\* Local mode: the table after its first render.
InitSelect ==
    /\ cfg \in {Merge(DefaultProps, c) :
                  c \in [isServerSide : {FALSE}, mode : {"single", "multiple"},
                         selectAllScope : {"page", "all"}, doubleClickSelectsOnly : {TRUE},
                         loading : {FALSE}]}
    /\ InitHookState
    /\ serverLoading = FALSE
    /\ requests = <<>>
    /\ IdlePath
    /\ InitDebounce
    /\ IdleWalk
    /\ IdleExport

\* Remote mode: the table after its first render and the mount effect, which
\* has called fetchServerData once; the caller may supply totalCount.
InitRemote ==
    /\ cfg \in {Merge(DefaultProps, c) :
                  c \in [isServerSide : {TRUE}, mode : {"multiple"},
                         selectAllScope : {"page"}, doubleClickSelectsOnly : {TRUE},
                         loading : {FALSE}, totalCount : {<<>>, <<7>>}]}
    /\ InitHookState
    /\ serverLoading = TRUE
    /\ requests = <<[params |-> FetchParams(page, rowsPerPage, sort, filters, serverSearch,
                                            advancedSearch),
                     status |-> "pending"]>>
    /\ IdlePath
    /\ InitDebounce
    /\ IdleWalk
    /\ IdleExport

PageInputs   == 0..MaxPage
SortInputs   == {ColName}
FilterInputs == {Str(<<"a">>), Str(<<>>)}
TermInputs   == {<<>>, <<"B">>}

\* Local mode, selection: rows are clicked, double-clicked and (de)selected
\* through the header checkbox while the page and the client filter change.
NextSelect ==
    \/ \E p \in PageInputs : handlePageChange(p) /\ UNCHANGED <<pathVars, debounceVars, exportVars, visibleColumns, walk>>
    \/ \E t \in TermInputs : handleClientFilterChange(t) /\ UNCHANGED <<pathVars, debounceVars, exportVars, visibleColumns, walk>>
    \/ \E row \in Range(paginatedData) :
          handleSelectionChange(row) /\ UNCHANGED <<pathVars, debounceVars, exportVars, visibleColumns, walk>>
    \/ \E row \in Range(paginatedData) :
          handleDoubleClickSelection(row) /\ UNCHANGED <<pathVars, debounceVars, exportVars, visibleColumns, walk>>
    \/ \E checked \in BOOLEAN : handleSelectAll(checked) /\ UNCHANGED <<pathVars, debounceVars, exportVars, visibleColumns, walk>>

SpecSelect == InitSelect /\ [][NextSelect]_vars

\* Remote mode, pipeline: every state-changing handler, refetch, and the
\* settling of the requests in any order.
NextRemote ==
    \/ \E p \in PageInputs : handlePageChange(p) /\ UNCHANGED <<pathVars, debounceVars, exportVars, visibleColumns, walk>>
    \/ \E r \in RowsPerPageOptionsProp :
          handleRowsPerPageChange(r) /\ UNCHANGED <<pathVars, debounceVars, exportVars, visibleColumns, walk>>
    \/ \E c \in SortInputs : handleSortChange(c) /\ UNCHANGED <<pathVars, debounceVars, exportVars, visibleColumns, walk>>
    \/ \E v \in FilterInputs :
          handleFilterChange(ColName, v, "contains") /\ UNCHANGED <<pathVars, debounceVars, exportVars, visibleColumns, walk>>
    \/ handleClearFilters /\ UNCHANGED <<pathVars, debounceVars, exportVars, visibleColumns, walk>>
    \/ \E t \in TermInputs : handleClientFilterChange(t) /\ UNCHANGED <<pathVars, debounceVars, exportVars, visibleColumns, walk>>
    \/ \E t \in TermInputs : handleServerSearchChange(t) /\ UNCHANGED <<pathVars, debounceVars, exportVars, visibleColumns, walk>>
    \/ handleAdvancedSearch([criteria |-> <<SearchCriterion(<<"c">>)>>, matchAll |-> TRUE])
          /\ UNCHANGED <<pathVars, debounceVars, exportVars, visibleColumns, walk>>
    \/ refetch /\ UNCHANGED <<pathVars, debounceVars, exportVars, visibleColumns, walk>>
    \/ \E i \in 1..Len(requests) : FetchResolve(i) /\ UNCHANGED <<pathVars, debounceVars, exportVars, visibleColumns, walk>>
    \/ \E i \in 1..Len(requests) : FetchReject(i) /\ UNCHANGED <<pathVars, debounceVars, exportVars, visibleColumns, walk>>

SpecRemote == InitRemote /\ [][NextRemote]_vars

\* Remote mode, selection: rows of the fetched page are clicked while pages
\* are changed and refetched.
NextRemoteSelect ==
    \/ \E p \in PageInputs : handlePageChange(p) /\ UNCHANGED <<pathVars, debounceVars, exportVars, visibleColumns, walk>>
    \/ refetch /\ UNCHANGED <<pathVars, debounceVars, exportVars, visibleColumns, walk>>
    \/ \E i \in 1..Len(requests) : FetchResolve(i) /\ UNCHANGED <<pathVars, debounceVars, exportVars, visibleColumns, walk>>
    \/ \E i \in 1..Len(requests) : FetchReject(i) /\ UNCHANGED <<pathVars, debounceVars, exportVars, visibleColumns, walk>>
    \/ \E row \in Range(paginatedData) :
          handleSelectionChange(row) /\ UNCHANGED <<pathVars, debounceVars, exportVars, visibleColumns, walk>>

SpecRemoteSelect == InitRemote /\ [][NextRemoteSelect]_vars

\* One call escapeHtml(value), value drawn from null, undefined, a number and
\* the texts of up to MaxTextLen characters.
InitEscape ==
    /\ exportCall \in {[fn |-> "escapeHtml", arg |-> v] :
                         v \in {Null, Undefined, Num(5)}
                               \cup {Str(t) : t \in StringsUpTo(MarkupChars, MaxTextLen)}}
    /\ exportOut = <<>>
    /\ IdlePath
    /\ IdleHook
    /\ InitDebounce
    /\ IdleWalk

CallEscapeHtml ==
    /\ exportCall.fn = "escapeHtml"
    /\ exportOut = <<>>
    /\ exportOut' = <<escapeHtml(exportCall.arg)>>
    /\ UNCHANGED <<exportCall, pathVars, hookVars, debounceVars, visibleColumns, walk>>

NextEscape == CallEscapeHtml

SpecEscape == InitEscape /\ [][NextEscape]_vars

\* The debounced inputs of a local-mode table.
InitDebounced ==
    /\ IdleHook
    /\ IdlePath
    /\ InitDebounce
    /\ IdleWalk
    /\ IdleExport

KeyInputs == {<<>>, <<"a">>, <<"B">>}

NextDebounced ==
    \/ \E v \in KeyInputs : handleFilterInputChange(v) /\ UNCHANGED <<pathVars, exportVars, visibleColumns, walk>>
    \/ \E v \in KeyInputs : handleSearchInputChange(v) /\ UNCHANGED <<pathVars, exportVars, visibleColumns, walk>>
    \/ \E t \in timers : TimerFires(t) /\ UNCHANGED <<pathVars, exportVars, visibleColumns, walk>>
    \/ ClearFilterClick /\ UNCHANGED <<pathVars, exportVars, visibleColumns, walk>>
    \/ Unmount /\ UNCHANGED <<pathVars, exportVars, visibleColumns, walk>>

SpecDebounced == InitDebounced /\ [][NextDebounced]_vars

\* Local mode, sorting: a data prop of up to MaxRows rows whose name is a
\* string, a number, null or missing; sortConfig with or without defaults;
\* either comparator argument order; column headers are clicked.
\* The row { id: k, name: v }; for v undefined the row has no name.
SampleRow(k, v) ==
    IF v = Undefined THEN Obj(ColId :> Num(k))
    ELSE Obj((ColId :> Num(k)) @@ (ColName :> v))

DataSets(values, n) ==
    UNION {{[k \in 1..m |-> SampleRow(k, f[k])] : f \in [1..m -> values]} : m \in 0..n}

BoldHi == <<"<", "b", ">", "H", "i", "<", "/", "b", ">">>
SmithJohn == <<"S", ",", " ", "\"", "J", "\"", "&", "<">>

\* One call exportData(format, data, columns, config) for csv, pdf and word:
\* rows whose name is missing, a boolean or a text (with markup, separators,
\* quotes or line breaks), a name column with a plain or a special label and
\* with or without an exportFormat callback, and a config whose four texts are
\* each absent or markup.
InitExport ==
    /\ exportCall \in
         {[fn |-> "exportData",
           arg |-> [format |-> f, data |-> d, config |-> c,
                    columns |-> <<ExportColumn(ColId, <<"I", "D">>, <<>>),
                                  ExportColumn(ColName, l, x)>>]] :
            f \in {"csv", "pdf", "word"},
            d \in DataSets({Undefined, Bool(TRUE), Str(SmithJohn), Str(<<"\r">>),
                            Str(<<"a", "\n">>)}, MaxExportRows),
            l \in {<<"N">>, SmithJohn},
            x \in {<<>>, <<SmithJohn>>},
            c \in [title : {Undefined, Str(BoldHi)}, subtitle : {Undefined, Str(BoldHi)},
                   customHeader : {Undefined, Str(<<>>), Str(BoldHi)},
                   customFooter : {Undefined, Str(BoldHi)},
                   allowUnsafeHtml : {Undefined, Bool(FALSE), Bool(TRUE),
                                      Str(<<"t", "r", "u", "e">>)},
                   includeHeaders : {Undefined, Bool(FALSE)}]}
    /\ exportOut = <<>>
    /\ IdlePath
    /\ IdleHook
    /\ InitDebounce
    /\ IdleWalk

CallExportData ==
    /\ exportCall.fn = "exportData"
    /\ exportOut = <<>>
    /\ exportOut' = <<exportData(exportCall.arg.format, exportCall.arg.data,
                                 exportCall.arg.columns, exportCall.arg.config)>>
    /\ UNCHANGED <<exportCall, pathVars, hookVars, debounceVars, visibleColumns, walk>>

NextExport == CallExportData

SpecExport == InitExport /\ [][NextExport]_vars

\* Local mode, column configuration: each of the two columns may be
\* configured hidden, the name column also not exportable or not searchable;
\* the user toggles columns in the column menu, types a client filter term and
\* exports in any format.
InitColumns ==
    /\ cfg \in {Merge(LocalDefaultCfg,
                       [columns |-> <<[ExportColumn(ColId, <<"I", "D">>, <<>>)
                                         EXCEPT !.hidden = h1],
                                      [ExportColumn(ColName, <<"N">>, <<>>)
                                         EXCEPT !.hidden = h2, !.exportable = e2,
                                                !.searchable = s2]>>,
                        exportConfig |-> Merge(DefaultProps.exportConfig,
                                               [visibleColumnsOnly |-> v])]) :
                  h1 \in BOOLEAN, h2 \in BOOLEAN, e2 \in BOOLEAN, s2 \in BOOLEAN,
                  v \in {Undefined, Bool(TRUE), Bool(FALSE)}}
    /\ InitHookState
    /\ serverLoading = FALSE
    /\ requests = <<>>
    /\ IdlePath
    /\ InitDebounce
    /\ IdleWalk
    /\ IdleExport

NextColumns ==
    \/ \E c \in 1..Len(columns) : ColumnMenuClick(c) /\ UNCHANGED <<pathVars, debounceVars, walk>>
    \/ \E f \in {"csv", "pdf", "word"} :
          handleExport(f) /\ UNCHANGED <<pathVars, debounceVars, walk>>
    \/ \E t \in TermInputs :
          handleClientFilterChange(t) /\ UNCHANGED <<pathVars, debounceVars, exportVars, visibleColumns, walk>>

SpecColumns == InitColumns /\ [][NextColumns]_vars

\* Remote mode, advanced search: the caller may supply the advancedSearch prop
\* (empty, blank or filled criteria) and onAdvancedSearch; the user submits
\* the search dialog with up to two criteria, changes the page, and the
\* requests settle.
InitSearch ==
    /\ cfg \in {Merge(DefaultProps, c) :
                  c \in [isServerSide : {TRUE}, mode : {"multiple"},
                         selectAllScope : {"page"}, doubleClickSelectsOnly : {TRUE},
                         loading : {FALSE}, onAdvancedSearch : BOOLEAN,
                         advancedSearch :
                            {<<>>} \cup
                            {<<[criteria |-> cr, matchAll |-> TRUE]>> :
                                cr \in {<<>>, <<SearchCriterion(<<" ">>)>>,
                                        <<SearchCriterion(<<"a">>)>>,
                                        <<SearchCriterion(<<>>), SearchCriterion(<<"a">>)>>}}]}
    /\ InitHookState
    /\ serverLoading = TRUE
    /\ requests = <<[params |-> FetchParams(page, rowsPerPage, sort, filters, serverSearch,
                                            advancedSearch),
                     status |-> "pending"]>>
    /\ IdlePath
    /\ InitDebounce
    /\ IdleWalk
    /\ IdleExport

NextSearch ==
    \/ \E n \in 0..2 : \E v \in [1..n -> {<<>>, <<" ">>, <<"a">>, <<" ", "b", " ">>}] :
       \E m \in BOOLEAN :
          SearchDialogSubmit([i \in 1..n |-> SearchCriterion(v[i])], m)
            /\ UNCHANGED <<pathVars, debounceVars, exportVars, visibleColumns, walk>>
    \/ \E p \in PageInputs :
          handlePageChange(p) /\ UNCHANGED <<pathVars, debounceVars, exportVars, visibleColumns, walk>>
    \/ \E i \in 1..Len(requests) :
          FetchResolve(i) /\ UNCHANGED <<pathVars, debounceVars, exportVars, visibleColumns, walk>>

SpecSearch == InitSearch /\ [][NextSearch]_vars

\* Local mode, row clicks: selection enabled or not, single or multiple,
\* doubleClickSelectsOnly false or not, with or without onSelectionChange;
\* the rows of the current page are clicked and double-clicked and the page
\* changes.
InitRowClicks ==
    /\ cfg \in {Merge(LocalDefaultCfg, c) :
                  c \in [selectionEnabled : BOOLEAN, mode : {"single", "multiple"},
                         doubleClickSelectsOnly : BOOLEAN, onSelectionChange : BOOLEAN]}
    /\ InitHookState
    /\ serverLoading = FALSE
    /\ requests = <<>>
    /\ IdlePath
    /\ InitDebounce
    /\ IdleWalk
    /\ IdleExport

NextRowClicks ==
    \/ \E row \in Range(paginatedData) :
          RowClick(row) /\ UNCHANGED <<pathVars, debounceVars, exportVars, visibleColumns, walk>>
    \/ \E row \in Range(paginatedData) :
          RowDoubleClick(row) /\ UNCHANGED <<pathVars, debounceVars, exportVars, visibleColumns, walk>>
    \/ \E p \in PageInputs :
          handlePageChange(p) /\ UNCHANGED <<pathVars, debounceVars, exportVars, visibleColumns, walk>>

SpecRowClicks == InitRowClicks /\ [][NextRowClicks]_vars

\* One call extractAllValues(row): the row and the composite values reachable
\* from it are the objects 1..n of the heap, each holding up to MaxWalkItems
\* entries: a string, a number, or a reference to any of the objects
\* (itself included, so the graph may have cycles).
InitWalk ==
    /\ \E n \in 1..MaxWalkObjects :
          \E h \in [1..n -> UNION {[1..m -> {Str(<<"a">>), Num(7)}
                                           \cup {Ref(id) : id \in 1..n}] :
                                    m \in 0..MaxWalkItems}] :
              walk = [heap |-> h, stack |-> << <<"call", Ref(1)>> >>, visited |-> {},
                      values |-> <<>>, visits |-> [id \in 1..n |-> 0], threw |-> FALSE]
    /\ IdlePath
    /\ IdleHook
    /\ InitDebounce
    /\ IdleExport

NextWalk == WalkStep

\* The call runs to its end: every step that can be taken is taken.
SpecWalk == InitWalk /\ [][NextWalk]_vars /\ WF_vars(NextWalk)

InitSort ==
    /\ cfg \in {Merge(LocalDefaultCfg, c) :
                  c \in [data : DataSets({Str(<<"a">>), Str(<<"B">>), Num(2), Null, Undefined},
                                         MaxRows),
                         sortConfig : [defaultColumn : {Undefined, Str(ColName)},
                                       defaultDirection : {Undefined, Asc, Desc}],
                         comparefnArgs : {"later-earlier", "earlier-later"}]}
    /\ InitHookState
    /\ serverLoading = FALSE
    /\ requests = <<>>
    /\ IdlePath
    /\ InitDebounce
    /\ IdleWalk
    /\ IdleExport

NextSort ==
    \E c \in {ColId, ColName} : handleSortChange(c) /\ UNCHANGED <<pathVars, debounceVars, exportVars, visibleColumns, walk>>

SpecSort == InitSort /\ [][NextSort]_vars

\* Local mode, column filters: a data prop of up to MaxRows rows whose name is
\* a string (possibly empty), a number, null or missing; filters are set on
\* the name column with every operator, and on the id column.
InitFilter ==
    /\ cfg \in {Merge(LocalDefaultCfg, c) :
                  c \in [data : DataSets({Str(<<"a">>), Str(<<"A", "b">>), Str(<<>>), Num(2),
                                          Null, Undefined}, MaxRows)]}
    /\ InitHookState
    /\ serverLoading = FALSE
    /\ requests = <<>>
    /\ IdlePath
    /\ InitDebounce
    /\ IdleWalk
    /\ IdleExport

NextFilter ==
    \/ \E op \in {"equals", "contains", "startsWith", "endsWith", "greaterThan", "lessThan",
                   "isEmpty", "isNotEmpty"} :
       \E v \in {Str(<<"A">>), Str(<<"a", "b">>), Num(5), Str(<<>>)} :
          handleFilterChange(ColName, v, op) /\ UNCHANGED <<pathVars, debounceVars, exportVars, visibleColumns, walk>>
    \/ \E v \in {Num(1), Null} :
          handleFilterChange(ColId, v, "equals") /\ UNCHANGED <<pathVars, debounceVars, exportVars, visibleColumns, walk>>
    \/ handleClearFilters /\ UNCHANGED <<pathVars, debounceVars, exportVars, visibleColumns, walk>>

SpecFilter == InitFilter /\ [][NextFilter]_vars

\* Local mode, pagination: the data prop holds the first n of the fixed rows;
\* the page, the page size, the client filter (also to a term no row matches)
\* and the sort change.
InitPaginate ==
    /\ cfg \in {Merge(LocalDefaultCfg, c) :
                  c \in [data : {SubSeq(FixedData, 1, n) : n \in 0..NumRows}]}
    /\ InitHookState
    /\ serverLoading = FALSE
    /\ requests = <<>>
    /\ IdlePath
    /\ InitDebounce
    /\ IdleWalk
    /\ IdleExport

NextPaginate ==
    \/ \E p \in PageInputs : handlePageChange(p) /\ UNCHANGED <<pathVars, debounceVars, exportVars, visibleColumns, walk>>
    \/ \E r \in RowsPerPageOptionsProp \cup {1} :
          handleRowsPerPageChange(r) /\ UNCHANGED <<pathVars, debounceVars, exportVars, visibleColumns, walk>>
    \/ \E t \in TermInputs \cup {<<"z">>} :
          handleClientFilterChange(t) /\ UNCHANGED <<pathVars, debounceVars, exportVars, visibleColumns, walk>>
    \/ handleSortChange(ColName) /\ UNCHANGED <<pathVars, debounceVars, exportVars, visibleColumns, walk>>

SpecPaginate == InitPaginate /\ [][NextPaginate]_vars

\* Local mode, uncontrolled, through the controls of the table: the page
\* buttons, the rows-per-page select, the client filter, the column filter
\* and its clearing, and the sort; the data prop is as in InitPaginate.
NextButtons ==
    \/ \E b \in {"first", "previous", "next", "last"} :
          PaginationButtonClick(b) /\ UNCHANGED <<pathVars, debounceVars, exportVars, visibleColumns, walk>>
    \/ \E r \in RowsPerPageOptionsProp \cup {1} :
          handleRowsPerPageChange(r) /\ UNCHANGED <<pathVars, debounceVars, exportVars, visibleColumns, walk>>
    \/ \E t \in TermInputs \cup {<<"z">>} :
          handleClientFilterChange(t) /\ UNCHANGED <<pathVars, debounceVars, exportVars, visibleColumns, walk>>
    \/ \E v \in FilterInputs :
          handleFilterChange(ColName, v, "contains") /\ UNCHANGED <<pathVars, debounceVars, exportVars, visibleColumns, walk>>
    \/ handleClearFilters /\ UNCHANGED <<pathVars, debounceVars, exportVars, visibleColumns, walk>>
    \/ handleSortChange(ColName) /\ UNCHANGED <<pathVars, debounceVars, exportVars, visibleColumns, walk>>

SpecButtons == InitPaginate /\ [][NextButtons]_vars

\* Local mode with controlled slices: the caller supplies up to MaxControlled
\* value props and at most one change callback, and may re-render with
\* another value for a supplied prop; every pipeline handler is called and
\* the first row is clicked.
PropValues ==
    [page             |-> <<1, 2>>,
     rowsPerPage      |-> <<3, 5>>,
     sort             |-> <<[column |-> Str(ColName), direction |-> Asc], NullSort>>,
     filters          |-> <<NoProps, (ColName :> [value |-> Str(<<"a">>),
                                                  operator |-> "contains"])>>,
     clientFilterTerm |-> << <<>>, <<"a">> >>,
     searchTerm       |-> << <<>>, <<"a">> >>,
     advancedSearch   |-> <<[criteria |-> <<>>, matchAll |-> TRUE],
                            [criteria |-> <<SearchCriterion(<<"c">>)>>, matchAll |-> TRUE]>>,
     selectedRows     |-> << <<>>, <<FixedData[2]>> >>]

InitControlled ==
    /\ cfg \in {Merge(LocalDefaultCfg,
                       Merge([sl \in P |-> <<PropValues[sl][1]>>], [cb \in K |-> TRUE])) :
                  P \in {Q \in SUBSET DOMAIN PropValues : Cardinality(Q) <= MaxControlled},
                  K \in {Q \in SUBSET {"onPageChange", "onRowsPerPageChange", "onSortChange",
                                       "onFilterChange", "onClientFilterChange",
                                       "onSearchChange", "onAdvancedSearch",
                                       "onSelectionChange"} : Cardinality(Q) <= 1}}
    /\ InitHookState
    /\ serverLoading = FALSE
    /\ requests = <<>>
    /\ IdlePath
    /\ InitDebounce
    /\ IdleWalk
    /\ IdleExport

\* The caller renders the table again with value v for a prop it supplies.
ParentRerender(slice, v) ==
    /\ cfg[slice] # <<>>
    /\ cfg' = [cfg EXCEPT ![slice] = <<v>>]
    /\ UNCHANGED <<pipelineVars, internalSelectedRows, serverData, serverTotalCount,
                   consoleErrors, uncaught, lastCallback>>
    /\ RunFetchEffect(/\ slice \in {"page", "rowsPerPage", "sort", "filters", "advancedSearch"}
                      /\ cfg[slice] # <<v>>,
                      FetchParams(page', rowsPerPage', sort', filters', serverSearch',
                                  advancedSearch'))

NextControlled ==
    \/ \E p \in {0, 1} : handlePageChange(p) /\ UNCHANGED <<pathVars, debounceVars, exportVars, visibleColumns, walk>>
    \/ \E r \in RowsPerPageOptionsProp :
          handleRowsPerPageChange(r) /\ UNCHANGED <<pathVars, debounceVars, exportVars, visibleColumns, walk>>
    \/ handleSortChange(ColName) /\ UNCHANGED <<pathVars, debounceVars, exportVars, visibleColumns, walk>>
    \/ \E v \in FilterInputs :
          handleFilterChange(ColName, v, "contains") /\ UNCHANGED <<pathVars, debounceVars, exportVars, visibleColumns, walk>>
    \/ handleClearFilters /\ UNCHANGED <<pathVars, debounceVars, exportVars, visibleColumns, walk>>
    \/ \E t \in TermInputs : handleClientFilterChange(t) /\ UNCHANGED <<pathVars, debounceVars, exportVars, visibleColumns, walk>>
    \/ \E i \in 1..2 : handleAdvancedSearch(PropValues.advancedSearch[i])
                           /\ UNCHANGED <<pathVars, debounceVars, exportVars, visibleColumns, walk>>
    \/ handleSelectionChange(FixedData[1]) /\ UNCHANGED <<pathVars, debounceVars, exportVars, visibleColumns, walk>>
    \/ \E sl \in DOMAIN PropValues : \E i \in 1..2 :
          ParentRerender(sl, PropValues[sl][i]) /\ UNCHANGED <<pathVars, debounceVars, exportVars, visibleColumns, walk>>

SpecControlled == InitControlled /\ [][NextControlled]_vars

-----------------------------------------------------------------------------
(***************************************************************************)
(* Claims about getNestedValue                                             *)
(***************************************************************************)
HasBannedSegment(path) ==
    \E i \in 1..Len(SplitDots(path)) : SplitDots(path)[i] \in BANNED_KEYS

FirstBannedIndex(path) ==
    CHOOSE i \in 1..Len(SplitDots(path)) :
        /\ SplitDots(path)[i] \in BANNED_KEYS
        /\ \A j \in 1..(i - 1) : SplitDots(path)[j] \notin BANNED_KEYS

\* C1: for every row and every path with a segment that is exactly
\* "__proto__", "constructor" or "prototype", getNestedValue returns undefined,
\* does not throw, and indexes no value with the banned segment or any
\* segment after it.
C1_BannedPathUndefined ==
    (gnvPc = "done" /\ HasBannedSegment(gnvPath)) =>
        /\ gnvOut.value = Undefined
        /\ ~gnvOut.threw
        /\ \A k \in 1..Len(gnvOut.reads) : gnvOut.reads[k] < FirstBannedIndex(gnvPath)

\* The walk went two levels into a row whose prototype chain carries the
\* banned names and stopped at a banned third segment that a plain read would
\* have resolved.
C1_Witness ==
    /\ gnvPc = "done"
    /\ HasBannedSegment(gnvPath)
    /\ FirstBannedIndex(gnvPath) = 3
    /\ Len(gnvOut.reads) = 2
    /\ gnvObj.proto = <<PollutedProto>>
    /\ gnvOut.value = Undefined

-----------------------------------------------------------------------------
(***************************************************************************)
(* Claims about remote fetching (SpecRemote)                               *)
(***************************************************************************)
CurrentParams ==
    FetchParams(page, rowsPerPage, sort, filters, serverSearch, advancedSearch)

\* The records of a row array, object identity left out.
Records(rows) == [i \in 1..Len(rows) |-> [rows[i] EXCEPT !.oid = 0]]

Rejected(i) == requests[i].status = "pending" /\ requests'[i].status = "rejected"

\* C2: once every issued fetch has resolved, whatever the order of the
\* responses, data and totalCount are those of the response to the current
\* state (the last request issued); a response to a superseded state does not
\* stay in serverData / serverTotalCount.
C2_LatestResponseWins ==
    (Len(requests) >= 2 /\ \A i \in 1..Len(requests) : requests[i].status = "resolved") =>
        /\ Records(serverData) = Records(RemoteResponse(CurrentParams, 0).data)
        /\ serverTotalCount = RemoteResponse(CurrentParams, 0).totalCount

\* C3: when a fetch rejects, no exception leaves fetchServerData, serverData
\* and serverTotalCount keep their values (those of the last successful
\* fetch), page, rowsPerPage, sort and filters are unchanged, and loading is
\* false afterwards.
C3_RejectKeepsState ==
    [][(\E i \in 1..Len(requests) : Rejected(i)) =>
          /\ ~uncaught'
          /\ serverData' = serverData
          /\ serverTotalCount' = serverTotalCount
          /\ page' = page
          /\ rowsPerPage' = rowsPerPage
          /\ sort' = sort
          /\ filters' = filters
          /\ ~serverLoading'
          /\ ~loading']_vars

\* A fetch resolved, a later one (for another page) rejected, and the table
\* still shows the resolved one's rows with loading cleared.
C3_Witness ==
    /\ Len(requests) = 2
    /\ requests[1].status = "resolved"
    /\ requests[2].status = "rejected"
    /\ requests[2].params.page = 1
    /\ serverData = RemoteResponse(requests[1].params, 1).data
    /\ Len(serverData) > 0
    /\ page = 1
    /\ consoleErrors = 1
    /\ ~loading

\* C4: after a fetch rejection the state the hook returns differs from the
\* state it returns after a successful fetch that delivers the same data.
C4_RejectionObservable ==
    [][(\E i \in 1..Len(requests) : Rejected(i)) =>
          HookReturn' # HookReturnOf(paginatedData, totalCount, FALSE, page, rowsPerPage,
                                     sort, filters, selectedRows)]_vars

\* C5: while at least one fetch is in flight, loading is true.
C5_LoadingWhileInFlight == Pending # {} => loading

-----------------------------------------------------------------------------
(***************************************************************************)
(* Claims about the debounced inputs (SpecDebounced)                       *)
(***************************************************************************)
Streams == {"filter", "search"}

\* C6: each input stream has at most one pending timer, the pending timer
\* carries the last typed value, every handler call made by a timer passed the
\* value typed last on its stream while the component was mounted, and no
\* timer is pending after unmount.
C6_DebounceLastValueOnly ==
    /\ \A st \in Streams : Cardinality({t \in timers : t.stream = st}) <= 1
    /\ \A t \in timers : lastTyped[t.stream] = <<t.value>>
    /\ \A k \in 1..Len(timerCalls) :
          timerCalls[k].mounted /\ timerCalls[k].typed = <<timerCalls[k].value>>
    /\ ~mounted => timers = {}

\* Two keystrokes in the filter box led to one handler call, and the search
\* timer set by a third keystroke was cancelled by the unmount.
C6_Witness ==
    /\ ~mounted
    /\ filterTimerRef = 2
    /\ searchTimerRef = 3
    /\ timers = {}
    /\ Len(timerCalls) = 1
    /\ timerCalls[1].stream = "filter"
    /\ internalClientFilterTerm = <<"B">>
    /\ localSearchValue = <<"a">>
    /\ internalServerSearch.term = <<>>

-----------------------------------------------------------------------------
(***************************************************************************)
(* Claims about selection (SpecSelect, SpecRemoteSelect)                   *)
(***************************************************************************)
SelectedKeys == {getRowKey(selectedRows[i]) : i \in 1..Len(selectedRows)}

\* C7: in 'single' mode the selection never holds more than one row, whatever
\* handlers are called.
C7_SingleModeAtMostOne == cfg.mode = "single" => Len(selectedRows) <= 1

\* Number of rows of the select-all scope whose key is selected.
SelectedInScope ==
    Cardinality({i \in 1..Len(selectAllScope) : getRowKey(selectAllScope[i]) \in SelectedKeys})

\* C8: isAllSelected holds iff the scope is non-empty and all its rows are
\* selected; isIndeterminate holds iff 0 < selected-in-scope < scope size; they
\* never hold together and both are false for an empty scope.
C8_AllOrIndeterminate ==
    /\ isAllSelected <=> (Len(selectAllScope) > 0 /\ SelectedInScope = Len(selectAllScope))
    /\ isIndeterminate <=> (0 < SelectedInScope /\ SelectedInScope < Len(selectAllScope))
    /\ ~(isAllSelected /\ isIndeterminate)
    /\ Len(selectAllScope) = 0 => (~isAllSelected /\ ~isIndeterminate)

\* Scope 'all' on the second page: one of the filtered rows is selected, so
\* the header checkbox is indeterminate.
C8_Witness ==
    /\ cfg.selectAllScope = "all"
    /\ cfg.mode = "multiple"
    /\ page = 1
    /\ clientFilterTerm = <<"B">>
    /\ Len(selectedRows) = 1
    /\ isIndeterminate
    /\ ~isAllSelected

\* Ids of the data rows that survive the client filter, and the position of
\* such a row among the survivors.
SurvivorIds ==
    {k \in 1..NumRows :
        clientFilterTerm = <<>> \/ matchesSearch(propData[k], ToLowerCase(clientFilterTerm))}

SurvivorRank(k) == Cardinality({j \in SurvivorIds : j <= k})

OnCurrentPage(k) ==
    /\ SurvivorRank(k) > page * rowsPerPage
    /\ SurvivorRank(k) <= page * rowsPerPage + rowsPerPage

ExpectedSelectAllIds ==
    IF cfg.selectAllScope = "all" THEN SurvivorIds
    ELSE {k \in SurvivorIds : OnCurrentPage(k)}

\* C9: in local multiple mode handleSelectAll(true) makes the selection
\* exactly the scope rows, each once: with scope 'page' the rows of the
\* current page, with scope 'all' every row that survives the filter.
C9_SelectAllExactlyScope ==
    [][(cfg.mode = "multiple" /\ ~isServerSide /\ handleSelectAll(TRUE)) =>
          /\ {r.own[ColId].num : r \in Range(internalSelectedRows')} = ExpectedSelectAllIds
          /\ Len(internalSelectedRows') = Cardinality(ExpectedSelectAllIds)
          /\ Range(internalSelectedRows') \subseteq Range(propData)]_vars

\* Scope 'page', second page of the unfiltered rows: exactly rows 3 and 4 are
\* selected.
C9_Witness ==
    /\ cfg.selectAllScope = "page"
    /\ cfg.mode = "multiple"
    /\ page = 1
    /\ rowsPerPage = 2
    /\ clientFilterTerm = <<>>
    /\ selectedRows = <<propData[3], propData[4]>>
    /\ isAllSelected

\* C10: isRowSelected answers by key only (every object carrying a key gets
\* the answer "that key is selected"), so rows replaced by fresh objects after
\* a refetch stay selected, and toggling a selected key through a fresh
\* object removes that key from the selection.
C10_SelectionByKey ==
    [][/\ \A k \in 1..RemoteTotal : \A o \in 0..Len(requests) :
            isRowSelected(DataRow(k, o)) <=> (Num(k) \in SelectedKeys)
       /\ \A row \in Range(paginatedData) :
            (handleSelectionChange(row) /\ getRowKey(row) \in SelectedKeys) =>
                \A i \in 1..Len(internalSelectedRows') :
                    getRowKey(internalSelectedRows'[i]) # getRowKey(row)]_vars

\* After a refetch the displayed row is a fresh object, the selection still
\* holds the old object for its key, and the row is reported selected.
C10_Witness ==
    \E j \in 1..Len(serverData) : \E i \in 1..Len(selectedRows) :
        /\ getRowKey(selectedRows[i]) = getRowKey(serverData[j])
        /\ selectedRows[i] # serverData[j]
        /\ isRowSelected(serverData[j])
        /\ Len(requests) >= 2

-----------------------------------------------------------------------------
(***************************************************************************)
(* Claims about sorting (SpecSort)                                         *)
(***************************************************************************)
SortActive == Truthy(sort.column) /\ Truthy(sort.direction)

SortValueOf(row) == getNestedValue(row, sort.column.str)

\* Equal sort keys: the same value, or no value in both rows.
SameSortValue(a, b) ==
    \/ SortValueOf(a) = SortValueOf(b)
    \/ Nullish(SortValueOf(a)) /\ Nullish(SortValueOf(b))

PositionIn(rows, row) == CHOOSE i \in 1..Len(rows) : rows[i] = row

\* C11: whenever a sort is active, any two rows of the data with equal values
\* at the sort column (both missing included) appear in the sorted list in
\* their input order.
C11_SortStable ==
    SortActive =>
        \A i \in 1..Len(propData) : \A j \in 1..Len(propData) :
            (i < j /\ SameSortValue(propData[i], propData[j])) =>
                PositionIn(processedData, propData[i]) < PositionIn(processedData, propData[j])

\* C12: whenever a sort is active, in either direction, every row without a
\* value at the sort column comes after every row with a value.
C12_MissingSortLast ==
    SortActive =>
        \A i \in 1..Len(processedData) : \A j \in 1..Len(processedData) :
            (Nullish(SortValueOf(processedData[i])) /\ ~Nullish(SortValueOf(processedData[j])))
                => i > j

\* C13: the sort state has a null direction iff it has a null column, in the
\* initial state and after every handleSortChange.
C13_SortStateConsistent == (sort.direction = Null) <=> (sort.column = Null)

-----------------------------------------------------------------------------
(***************************************************************************)
(* Claims about column filters (SpecFilter)                                *)
(***************************************************************************)
Displayed(row) == \E i \in 1..Len(processedData) : processedData[i] = row

MissingAt(row, columnId) == Nullish(getNestedValue(row, columnId))

\* C14: a row is kept by the column-filter stage iff every filter entry holds
\* for it, and a row whose value at a filtered column is null or undefined is
\* dropped by equals, contains, startsWith, endsWith, greaterThan and lessThan
\* whatever the predicate value.
C14_FilterConjunctionMissing ==
    \A r \in 1..Len(propData) :
        /\ Displayed(propData[r]) <=>
              \A c \in DOMAIN filters : EvalFilter(propData[r], c, filters[c])
        /\ \A c \in DOMAIN filters :
              (/\ MissingAt(propData[r], c)
               /\ filters[c].operator \in
                     {"equals", "contains", "startsWith", "endsWith", "greaterThan", "lessThan"})
                  => ~Displayed(propData[r])

\* The filter entry with the letters of its predicate value in lower case.
LowerCased(filter) ==
    IF filter.value.kind = "string"
    THEN [filter EXCEPT !.value = Str(ToLowerCase(filter.value.str))]
    ELSE filter

\* The row with the letters of its string value at the column in lower case.
RowLowerCased(row, columnId) ==
    IF columnId \in DOMAIN row.own /\ row.own[columnId].kind = "string"
    THEN [row EXCEPT !.own[columnId] = Str(ToLowerCase(row.own[columnId].str))]
    ELSE row

\* C15: for equals, contains, startsWith and endsWith, whether a row passes
\* does not change when the predicate value or the row value is replaced by
\* its lower-case form.
C15_StringOperatorsIgnoreCase ==
    \A c \in DOMAIN filters :
        filters[c].operator \in {"equals", "contains", "startsWith", "endsWith"} =>
            \A r \in 1..Len(propData) :
                /\ EvalFilter(propData[r], c, filters[c])
                      = EvalFilter(propData[r], c, LowerCased(filters[c]))
                /\ EvalFilter(propData[r], c, filters[c])
                      = EvalFilter(RowLowerCased(propData[r], c), c, filters[c])

-----------------------------------------------------------------------------
(***************************************************************************)
(* Claims about pagination (SpecPaginate)                                  *)
(***************************************************************************)
\* The least k with k * rowsPerPage >= n.
PagesNeeded(n) ==
    CHOOSE k \in 0..n : k * rowsPerPage >= n /\ (k = 0 \/ (k - 1) * rowsPerPage < n)

\* Pages 0 .. k-1 of the processed list, one after the other.
RECURSIVE ConcatPages(_)
ConcatPages(k) ==
    IF k = 0 THEN <<>>
    ELSE ConcatPages(k - 1) \o SlicePage(processedData, k - 1, rowsPerPage)

\* C16: in local mode with rowsPerPage >= 1, totalPages is ceil(n / r) for
\* the n processed rows, pages 0 .. totalPages-1 concatenated give the
\* processed list, the current page holds the rows at its positions of that
\* list, and a page index >= totalPages shows no row.
C16_PagesPartitionList ==
    (~isServerSide /\ rowsPerPage >= 1) =>
        /\ totalPages = PagesNeeded(Len(processedData))
        /\ ConcatPages(totalPages) = processedData
        /\ paginatedData =
              [i \in 1..Cardinality({k \in 1..Len(processedData) :
                                        /\ k > page * rowsPerPage
                                        /\ k <= page * rowsPerPage + rowsPerPage})
                  |-> processedData[page * rowsPerPage + i]]
        /\ page >= totalPages => paginatedData = <<>>

\* The second of two pages of a three-row filtered and sorted list, and a
\* page beyond the last one.
C16_Witness ==
    /\ clientFilterTerm = <<"B">>
    /\ sort.direction = Desc
    /\ Len(propData) = NumRows
    /\ Len(processedData) = 3
    /\ rowsPerPage = 2
    /\ totalPages = 2
    /\ page = 1
    /\ Len(paginatedData) = 1
    /\ SlicePage(processedData, 2, rowsPerPage) = <<>>

-----------------------------------------------------------------------------
(***************************************************************************)
(* Claims about controlled and uncontrolled state (SpecControlled)         *)
(***************************************************************************)
\* C17: whenever no rowsPerPage prop is supplied, a call of
\* handleRowsPerPageChange(r) leaves rowsPerPage = r and page = 0.
C17_RowsPerPageChangeResetsPage ==
    [][\A r \in RowsPerPageOptionsProp :
          (cfg.rowsPerPage = <<>> /\ handleRowsPerPageChange(r)) =>
              (rowsPerPage' = r /\ page' = 0)]_vars

\* The resolved and the internally tracked value of each state slice.
Resolved ==
    [page |-> page, rowsPerPage |-> rowsPerPage, sort |-> sort, filters |-> filters,
     clientFilterTerm |-> clientFilterTerm, advancedSearch |-> advancedSearch,
     selectedRows |-> selectedRows]

Internal ==
    [page |-> internalPage, rowsPerPage |-> internalRowsPerPage, sort |-> internalSort,
     filters |-> internalFilters, clientFilterTerm |-> internalClientFilterTerm,
     advancedSearch |-> internalAdvancedSearch, selectedRows |-> internalSelectedRows]

\* The prop the caller supplies for a slice (clientFilterTerm can also be
\* supplied under its former name searchTerm).
Supplied(slice) ==
    IF slice = "clientFilterTerm" /\ cfg.clientFilterTerm = <<>> THEN cfg.searchTerm
    ELSE cfg[slice]

\* C18: for each of page, rowsPerPage, sort, filters, clientFilterTerm,
\* advancedSearch and selectedRows, in every state reached by handler calls
\* and re-renders: the resolved value is the supplied prop while one is
\* supplied, and the internally tracked value otherwise.
C18_ControlledValueVerbatim ==
    \A slice \in DOMAIN Resolved :
        IF Supplied(slice) # <<>>
        THEN Resolved[slice] = Supplied(slice)[1]
        ELSE Resolved[slice] = Internal[slice]

\* rowsPerPage is supplied without a callback: the handler has changed the
\* internal value and reset the page, and the pipeline still uses the prop.
C18_Witness ==
    /\ cfg.rowsPerPage = <<5>>
    /\ ~cfg.onRowsPerPageChange
    /\ internalRowsPerPage = 3
    /\ rowsPerPage = 5
    /\ internalPage = 0
    /\ internalClientFilterTerm = <<"B">>
    /\ clientFilterTerm = <<"B">>

-----------------------------------------------------------------------------
(***************************************************************************)
(* Claims about the remote pass-through (SpecRemote)                       *)
(***************************************************************************)
Resolves(i) == requests[i].status = "pending" /\ requests'[i].status = "resolved"

\* C19: in remote mode, when a fetch resolves the current page and the
\* processed data both become the response's data array, rows and order
\* unchanged; on every other step they stay as they are, whatever the client
\* filter term, filters, sort, page and rowsPerPage become; totalCount is the
\* totalCount prop if supplied, else the totalCount of that response.
C19_RemoteDataVerbatim ==
    [][/\ \A i \in 1..Len(requests) :
            Resolves(i) =>
                LET response == RemoteResponse(requests[i].params, i) IN
                /\ processedData' = response.data
                /\ paginatedData' = response.data
                /\ totalCount' = IF cfg.totalCount # <<>> THEN cfg.totalCount[1]
                                 ELSE response.totalCount
       /\ (\A i \in 1..Len(requests) : ~Resolves(i)) =>
                /\ processedData' = processedData
                /\ paginatedData' = paginatedData
                /\ paginatedData' = processedData'
                /\ totalCount' = totalCount]_vars

\* The response for the second page is shown as delivered although a client
\* filter term is set, and the supplied totalCount overrides the response's.
C19_Witness ==
    /\ isServerSide
    /\ clientFilterTerm = <<"B">>
    /\ page = 1
    /\ Len(requests) = 2
    /\ requests[2].status = "resolved"
    /\ paginatedData = RemoteResponse(requests[2].params, 2).data
    /\ Len(paginatedData) = 2
    /\ cfg.totalCount = <<7>>
    /\ totalCount = 7
    /\ serverTotalCount = RemoteTotal

-----------------------------------------------------------------------------
(***************************************************************************)
(* Claims about escapeHtml (SpecEscape)                                    *)
(***************************************************************************)
EscapeReturned == exportCall.fn = "escapeHtml" /\ exportOut # <<>>

\* C20: escapeHtml(null) and escapeHtml(undefined) return the empty string;
\* for every other value the result holds no raw <, >, double quote or single
\* quote (each of & < > " ' of the stringified value is replaced by an entity).
C20_EscapeHtmlAllFive ==
    EscapeReturned =>
        /\ Nullish(exportCall.arg) => exportOut[1] = <<>>
        /\ \A i \in 1..Len(exportOut[1]) : exportOut[1][i] \notin {"<", ">", "\"", "'"}

-----------------------------------------------------------------------------
(***************************************************************************)
(* Claims about the exporters (SpecExport)                                 *)
(***************************************************************************)
Exported(format) ==
    exportCall.fn = "exportData" /\ exportCall.arg.format = format /\ exportOut # <<>>

\* The text an HTML parser reads from element content e.
RECURSIVE HtmlDecode(_)
HtmlDecode(e) ==
    LET entities == { <<<<"&", "a", "m", "p", ";">>, "&">>,
                      <<<<"&", "l", "t", ";">>, "<">>,
                      <<<<"&", "g", "t", ";">>, ">">>,
                      <<<<"&", "q", "u", "o", "t", ";">>, "\"">>,
                      <<<<"&", "#", "3", "9", ";">>, "'">> }
    IN  IF e = <<>> THEN <<>>
        ELSE IF \E p \in entities : StartsWith(e, p[1])
             THEN LET p == CHOOSE q \in entities : StartsWith(e, q[1])
                  IN  <<p[2]>> \o HtmlDecode(SubSeq(e, Len(p[1]) + 1, Len(e)))
        ELSE <<Head(e)>> \o HtmlDecode(Tail(e))

\* e is text t escaped for element content: it holds no raw < or >, and it
\* reads back as t.
EscapedFormOf(e, t) ==
    /\ \A i \in 1..Len(e) : e[i] \notin {"<", ">"}
    /\ HtmlDecode(e) = t

\* The columns an exporter keeps and the cell texts it formats.
KeptColumns == exportableColumnsOf(exportCall.arg.columns)
CellTexts == ExportCells(exportCall.arg.data, KeptColumns)

\* C21: in the Word export title, subtitle, the meta line, column labels and
\* every cell value are embedded escaped whatever allowUnsafeHtml is;
\* customHeader and customFooter are embedded escaped unless allowUnsafeHtml
\* is exactly true, and verbatim when it is.
C21_WordEscapes ==
    Exported("word") =>
        LET doc == exportOut[1]
            config == exportCall.arg.config
            trusted == config.allowUnsafeHtml = Bool(TRUE)
        IN  /\ Truthy(config.title) =>
                  /\ doc.title # <<>> /\ EscapedFormOf(doc.title[1], config.title.str)
                  /\ EscapedFormOf(doc.titleTag, config.title.str)
            /\ Truthy(config.subtitle) =>
                  doc.subtitle # <<>> /\ EscapedFormOf(doc.subtitle[1], config.subtitle.str)
            /\ \A i \in 1..Len(doc.meta) : doc.meta[i] \notin {"<", ">"}
            /\ doc.head # <<>> =>
                  \A c \in 1..Len(KeptColumns) :
                      EscapedFormOf(doc.head[1][c], KeptColumns[c].label)
            /\ \A r \in 1..Len(CellTexts) : \A c \in 1..Len(KeptColumns) :
                      EscapedFormOf(doc.body[r][c], CellTexts[r][c])
            /\ Truthy(config.customHeader) =>
                  /\ doc.customHeader # <<>>
                  /\ IF trusted THEN doc.customHeader[1] = config.customHeader.str
                     ELSE EscapedFormOf(doc.customHeader[1], config.customHeader.str)
            /\ Truthy(config.customFooter) =>
                  IF trusted THEN doc.footer = config.customFooter.str
                  ELSE EscapedFormOf(doc.footer, config.customFooter.str)

\* allowUnsafeHtml is the string 'true', not the boolean: customHeader
\* <b>Hi</b> is embedded as &lt;b&gt;Hi&lt;/b&gt;, and a cell is escaped too.
C21_Witness ==
    /\ Exported("word")
    /\ exportCall.arg.config.allowUnsafeHtml = Str(<<"t", "r", "u", "e">>)
    /\ exportCall.arg.config.customHeader = Str(BoldHi)
    /\ exportOut[1].customHeader =
          << <<"&", "l", "t", ";", "b", "&", "g", "t", ";", "H", "i",
               "&", "l", "t", ";", "/", "b", "&", "g", "t", ";">> >>
    /\ Len(CellTexts) = 1
    /\ CellTexts[1][2] = SmithJohn
    /\ exportOut[1].body[1][2] # SmithJohn

\* C22: exportToPdf and exportToWord pass customHeader, customFooter, title
\* and subtitle through the sanitizer before placing them in the document:
\* when allowUnsafeHtml is not true, each of the four is embedded escaped.
C22_AllExportersSanitize ==
    (Exported("pdf") \/ Exported("word")) =>
        LET doc == exportOut[1]
            config == exportCall.arg.config
        IN  config.allowUnsafeHtml # Bool(TRUE) =>
                /\ Truthy(config.title) =>
                      EscapedFormOf(doc.title[1], config.title.str)
                /\ Truthy(config.subtitle) =>
                      EscapedFormOf(doc.subtitle[1], config.subtitle.str)
                /\ Truthy(config.customHeader) =>
                      EscapedFormOf(doc.customHeader[1], config.customHeader.str)
                /\ Truthy(config.customFooter) =>
                      EscapedFormOf(doc.footer, config.customFooter.str)

\* The raw fields of CSV text: records end at a line feed outside quotes,
\* fields at a comma outside quotes.
RECURSIVE CsvScan(_, _, _, _, _)
CsvScan(s, quoted, field, record, records) ==
    IF s = <<>> THEN Append(records, Append(record, field))
    ELSE IF Head(s) = "\"" THEN
        CsvScan(Tail(s), ~quoted, Append(field, "\""), record, records)
    ELSE IF ~quoted /\ Head(s) = "," THEN
        CsvScan(Tail(s), quoted, <<>>, Append(record, field), records)
    ELSE IF ~quoted /\ Head(s) = "\n" THEN
        CsvScan(Tail(s), quoted, <<>>, <<>>, Append(records, Append(record, field)))
    ELSE CsvScan(Tail(s), quoted, Append(field, Head(s)), record, records)

\* The text a CSV reader takes from a raw field: the outer quotes dropped and
\* each pair of quotes read as one.
RECURSIVE Undouble(_)
Undouble(s) ==
    IF s = <<>> THEN <<>>
    ELSE IF Len(s) >= 2 /\ s[1] = "\"" /\ s[2] = "\"" THEN <<"\"">> \o Undouble(Tail(Tail(s)))
    ELSE <<Head(s)>> \o Undouble(Tail(s))

CsvUnquote(f) ==
    IF Len(f) >= 2 /\ f[1] = "\"" /\ f[Len(f)] = "\""
    THEN Undouble(SubSeq(f, 2, Len(f) - 1))
    ELSE f

\* The texts the CSV export is given: the labels (unless headers are off),
\* then the formatted cells.
CsvTexts ==
    (IF exportCall.arg.config.includeHeaders # Bool(FALSE)
     THEN <<[c \in 1..Len(KeptColumns) |-> KeptColumns[c].label]>> ELSE <<>>)
    \o CellTexts

\* C23: every label and cell text holding a comma, a double quote or a line
\* break is emitted in double quotes with each embedded double quote doubled,
\* every other text is emitted unchanged, and unquoting the emitted field
\* gives back the text.
C23_CsvQuoting ==
    (Exported("csv") /\ CsvTexts # <<>>) =>
        LET raw == CsvScan(exportOut[1].content, FALSE, <<>>, <<>>, <<>>) IN
        /\ Len(raw) = Len(CsvTexts)
        /\ \A r \in 1..Len(CsvTexts) :
              /\ Len(raw[r]) = Len(CsvTexts[r])
              /\ \A c \in 1..Len(CsvTexts[r]) :
                    LET t == CsvTexts[r][c]
                        f == raw[r][c]
                        quotes(x) == Cardinality({i \in 1..Len(x) : x[i] = "\""})
                    IN  /\ IF \E i \in 1..Len(t) : t[i] \in {",", "\"", "\n", "\r"}
                           THEN /\ Len(f) = Len(t) + quotes(t) + 2
                                /\ f[1] = "\"" /\ f[Len(f)] = "\""
                                /\ quotes(f) = 2 * quotes(t) + 2
                           ELSE f = t
                        /\ CsvUnquote(f) = t

\* Smith, John "Jr." in short: the name S, "J"&< is emitted as "S, ""J""&<".
C23_Witness ==
    /\ Exported("csv")
    /\ Len(CellTexts) = 1
    /\ CellTexts[1][2] = SmithJohn
    /\ exportCall.arg.config.includeHeaders = Bool(FALSE)
    /\ exportOut[1].content =
          <<"1", ",", "\"", "S", ",", " ", "\"", "\"", "J", "\"", "\"", "&", "<", "\"">>

-----------------------------------------------------------------------------
(***************************************************************************)
(* Claims about the export from the table (SpecColumns)                    *)
(***************************************************************************)
\* The column labels a generated document holds (every drawn label is plain).
WrittenLabels(doc) ==
    IF doc.format = "csv"
    THEN LET first == CsvScan(doc.content, FALSE, <<>>, <<>>, <<>>)[1]
         IN  IF first = << <<>> >> THEN <<>> ELSE first
    ELSE doc.head[1]

\* The visible, exportable columns' labels, in column-definition order.
VisibleExportableLabels ==
    LET kept == FilterSeq(cfg.columns,
                          {i \in 1..Len(cfg.columns) :
                              /\ cfg.columns[i].id \in Range(visibleColumns)
                              /\ cfg.columns[i].exportable})
    IN  [i \in 1..Len(kept) |-> kept[i].label]

\* C24: when visibleColumnsOnly is not false, an export from the table writes
\* exactly the columns visible at that moment (after any column-menu toggles,
\* a column configured hidden that was switched on included) that are
\* exportable, in column-definition order.
C24_ExportsVisibleColumns ==
    [][\A f \in {"csv", "pdf", "word"} :
          (handleExport(f) /\ cfg.exportConfig.visibleColumnsOnly # Bool(FALSE)) =>
              WrittenLabels(exportOut'[1]) = VisibleExportableLabels]_vars

-----------------------------------------------------------------------------
(***************************************************************************)
(* Claims about the advanced search (SpecSearch)                           *)
(***************************************************************************)
AllBlank(criteria) == \A i \in 1..Len(criteria) : Trim(criteria[i].value) = <<>>
NoneBlank(criteria) == \A i \in 1..Len(criteria) : Trim(criteria[i].value) # <<>>

\* C25: an advanced-search state whose criteria are empty or all blank is no
\* search: no request carries such a state as its advancedSearch; and the
\* search dialog never submits a criterion with a blank value.
C25_BlankSearchIsNoSearch ==
    /\ \A i \in 1..Len(requests) :
          requests[i].params.advancedSearch # <<>> =>
              ~AllBlank(requests[i].params.advancedSearch[1].criteria)
    /\ NoneBlank(internalAdvancedSearch.criteria)
    /\ lastCallback.name = "onAdvancedSearch" => NoneBlank(lastCallback.arg.criteria)

-----------------------------------------------------------------------------
(***************************************************************************)
(* Claims about row clicks (SpecRowClicks)                                 *)
(***************************************************************************)
\* C29: when selectionConfig.enabled is not true, no click or double-click
\* on a row changes the selected rows or calls onSelectionChange.
C29_DisabledSelectionInert ==
    [][\A row \in Range(paginatedData) :
          (~cfg.selectionEnabled /\ (RowClick(row) \/ RowDoubleClick(row))) =>
              /\ selectedRows' = selectedRows
              /\ lastCallback'.name # "onSelectionChange"]_vars

-----------------------------------------------------------------------------
(***************************************************************************)
(* Claims about the filter clear button (SpecDebounced)                    *)
(***************************************************************************)
\* C28: a click on the filter clear button is durable: once every filter
\* timer has fired, an emptied filter box goes with the applied client filter
\* term '' (a value typed before the clear is not applied after it).
C28_ClearIsDurable ==
    (/\ mounted
     /\ localFilterValue = <<>>
     /\ \A t \in timers : t.stream # "filter") => clientFilterTerm = <<>>

-----------------------------------------------------------------------------
(***************************************************************************)
(* Claims about searchable columns (SpecColumns)                           *)
(***************************************************************************)
\* C27: a column marked searchable: false takes no part in the client-side
\* full-text filter: every row that passes a non-empty filter term holds the
\* term in the value of a column not so marked.
C27_UnsearchableColumnIgnored ==
    clientFilterTerm # <<>> =>
        \A r \in 1..Len(processedData) :
            \E c \in 1..Len(cfg.columns) :
                /\ cfg.columns[c].searchable
                /\ LET value == getNestedValue(processedData[r], cfg.columns[c].id) IN
                   /\ ~Nullish(value)
                   /\ Includes(ToLowerCase(JsString(value)), ToLowerCase(clientFilterTerm))

-----------------------------------------------------------------------------
(***************************************************************************)
(* Claims about the page index (SpecButtons)                               *)
(***************************************************************************)
\* C30: in uncontrolled local mode with a fixed data array, after any
\* sequence of actions the controls allow, 0 <= page <= max(0, totalPages - 1),
\* so a non-empty filtered set never shows an empty page.
C30_PageWithinRange ==
    /\ 0 <= page
    /\ page <= (IF totalPages - 1 > 0 THEN totalPages - 1 ELSE 0)
    /\ Len(processedData) > 0 => paginatedData # <<>>

\* The last of two pages of a filtered, sorted list, reached with the buttons.
C30_Witness ==
    /\ clientFilterTerm = <<"B">>
    /\ sort.direction = Desc
    /\ rowsPerPage = 2
    /\ totalPages = 2
    /\ page = 1
    /\ Len(paginatedData) = 1

-----------------------------------------------------------------------------
(***************************************************************************)
(* Claims about the full-text traversal (SpecWalk)                         *)
(***************************************************************************)
\* C26: extractAllValues terminates for every row, rows whose object graph
\* holds a cycle included (the call returns, it does not overflow the call
\* stack), and iterates the entries of each composite value at most once per
\* call.
C26_TraversalTerminates ==
    /\ [](\A id \in 1..Len(walk.heap) : walk.visits[id] <= 1)
    /\ <>(walk.stack = <<>> /\ ~walk.threw)

\* The call has returned for a row whose entry is an object that holds the
\* row again.
C26_Witness ==
    /\ Len(walk.heap) = 2
    /\ walk.heap[1] = <<Ref(2)>>
    /\ walk.heap[2] = <<Ref(1)>>
    /\ walk.stack = <<>>
    /\ ~walk.threw
    /\ walk.visited = {1, 2}
    /\ walk.visits = <<1, 1>>

=============================================================================
